---- MODULE Spec2Model ----
(***************************************************************************)
(* A model of the expiring cache (internal/cache/cache.go) and of the JWKS *)
(* client built on it (internal/authentication/jwks/client.go).            *)
(*                                                                         *)
(* Goroutines are the members of Procs.  Each one is at a position pc of   *)
(* the method it is executing; one action is one step between two points   *)
(* at which another goroutine can observe or interfere (a lock operation,  *)
(* a read of the clock, a call of the callback).                           *)
(***************************************************************************)
EXTENDS Integers, Sequences, FiniteSets, TLC

\* ------------------------------------------------------------------ bounds

\* The clock runs from 0 to MaxTime.
MaxTime == 2

Procs == {1, 2}
Keys == {"k1", "k2"}
Vals == {"v1", "v2"}

\* Each goroutine stores a value of its own, which tells its writes from the others'.
ValOf(p) == IF p = 1 THEN "v1" ELSE "v2"

\* cache.go:10-13
NoExpiration == -1
DefaultExpiration == 0

\* The durations callers pass to Store and Add, and the expirations passed to New.
Durations == {NoExpiration, DefaultExpiration, 1}
Expirations == {0, 1}

\* The functions a caller registers with OnEvicted; "nil" is Go's nil func.
Funcs == {"nil", "f1"}

\* ------------------------------------------------------------------ state

VARIABLES
    now,                \* time.Now(), in clock ticks
    newExpiration,      \* the expiration argument New was called with
    defaultExpiration,  \* Cache.defaultExpiration
    items,              \* Cache.items: a map, a function on the keys present
    mu,                 \* Cache.mu: [w: the goroutine holding Lock or 0, r: the holders of RLock]
    onEvicted,          \* Cache.onEvicted
    g,                  \* the goroutines: position and locals of each
    manager,            \* Cache.manager: "nil", or its loop "running" or "stopped"
    pending,            \* history: entries a sweep removed and has not yet reported
    spurious,           \* history: a callback was invoked for something no sweep removed
    lastStore,          \* history: per key, the value of the last Store that wrote
                        \* it and the instant that entry is due to expire
    client,             \* newClient: "none" before the call, then "ok" or "panic"
    refresh,            \* the refresh argument of newClient; client.refresh
    ttl,                \* the ttl argument of newClient
    sem,                \* client.sem: the weight acquired, of 1
    j,                  \* the goroutines of the JWKS client: callers of GetKey and
                        \* the goroutines GetKey starts
    irListener,         \* the *ir.HTTPListener of the translation pass
    xdsListener,        \* the *listener.Listener the filter chains are added to
    mgr,                \* the *hcm.HttpConnectionManager of the chain last added
    jwtFilter,          \* what JwtFilter last returned
    xerr,               \* what the last call of the translator returned: an error,
                        \* "nil", or "panic"
    hostname,           \* the hostname argument of resolveHostname
    lookup,             \* what net.LookupIP answered in the last call
    resolved,           \* what resolveHostname last returned
    services,           \* the Services of the managed namespace in the kube API
                        \* server, by name; creator is history: who created it
    resources,          \* Infra.Resources.Service
    recorded,           \* history: the names createOrUpdateServices passed to
                        \* updateResource in its last call
    svcList,            \* the items of deleteServices' list not yet deleted
    atStart,            \* history: the Services when deleteServices last started
    ipc,                \* the infra manager: "Idle", or "Deleting" in deleteServices
    ierr                \* what the last call of the infra manager returned

cacheVars == <<now, newExpiration, defaultExpiration, items, mu, onEvicted, g,
               manager, pending, spurious, lastStore>>

jwksVars == <<client, refresh, ttl, sem, j>>

dnsVars == <<hostname, lookup, resolved>>

xdsVars == <<irListener, xdsListener, mgr, jwtFilter, xerr, dnsVars>>

infraVars == <<services, resources, recorded, svcList, atStart, ipc, ierr>>

vars == <<cacheVars, jwksVars, xdsVars, infraVars>>

\* An Item of the map (cache.go:25-28).
Item(obj, exp) == [Object |-> obj, Expiration |-> exp]

\* A goroutine that is executing nothing.
IdleG ==
    [pc |-> "Idle", ret |-> "Idle", key |-> "", val |-> "", dur |-> 0,
     exp |-> 0, due |-> 0, found |-> FALSE, obj |-> "nil",
     evictedItems |-> <<>>, scan |-> {}]

\* ------------------------------------------------------------------ pure code

\* Item.Expired at clock reading t (cache.go:31-36).
ExpiredMutGE(i, t) ==
    IF i.Expiration = 0 THEN FALSE ELSE t >= i.Expiration

ExpiredMutNoZero(i, t) ==
    t > i.Expiration

Expired(i, t) ==
    IF i.Expiration = 0 THEN FALSE ELSE t > i.Expiration

\* New's choice of the default expiration (cache.go:45-47).
New(expiration) ==
    IF expiration = 0 THEN NoExpiration ELSE expiration

\* Store's computation of the expiry, with the clock at t (cache.go:65-72).
StoreExp(duration, default, t) ==
    LET d == IF duration = DefaultExpiration THEN default ELSE duration
    IN  IF d > 0 THEN t + d ELSE 0

\* What Get finds for key in map m with the clock at t (cache.go:87-101):
\* <<found, object>>.
GetResultMutNoExpiry(m, key, t) ==
    IF key \notin DOMAIN m THEN <<FALSE, "nil">>
    ELSE <<TRUE, m[key].Object>>

GetResultMutGE(m, key, t) ==
    IF key \notin DOMAIN m THEN <<FALSE, "nil">>
    ELSE IF m[key].Expiration > 0 /\ t >= m[key].Expiration THEN <<FALSE, "nil">>
    ELSE <<TRUE, m[key].Object>>

GetResult(m, key, t) ==
    IF key \notin DOMAIN m THEN <<FALSE, "nil">>
    ELSE IF m[key].Expiration > 0 /\ t > m[key].Expiration THEN <<FALSE, "nil">>
    ELSE <<TRUE, m[key].Object>>

\* The map after c.items[key] = item and after delete(c.items, key).
MapPut(m, key, item) ==
    [k \in DOMAIN m \cup {key} |-> IF k = key THEN item ELSE m[k]]

MapDelete(m, key) ==
    [k \in DOMAIN m \ {key} |-> m[k]]

\* Cache.delete (cache.go:143-153): <<value, evicted>>; the map loses key either way.
deleteMutNeverEvicted(m, key, f) ==
    <<"nil", FALSE>>

delete(m, key, f) ==
    IF f # "nil" /\ key \in DOMAIN m THEN <<m[key].Object, TRUE>> ELSE <<"nil", FALSE>>

\* The instant an entry stored with duration d at clock reading t is due to
\* expire, in a cache made by New(expiration): t plus the duration, or t plus
\* the cache's expiration when d is 0; 0 when the entry is never to expire.
\* This is the contract the stored expiry is compared with, kept in history
\* variables only.
Due(d, expiration, t) ==
    IF d > 0 THEN t + d
    ELSE IF d < 0 THEN 0
    ELSE IF expiration > 0 THEN t + expiration
    ELSE 0

\* ------------------------------------------------------------------ the lock

\* sync.RWMutex: Lock waits for no writer and no readers, RLock for no writer.
\* The mutex is not reentrant.
CanLock == mu.w = 0 /\ mu.r = {}
CanRLock == mu.w = 0

\* A nil func was called: the panic is not recovered and ends the process.
Crashed == \E p \in Procs : g[p].pc = "panic"

\* The goroutine returns to where the running method was called from.
Return(p) ==
    [IdleG EXCEPT !.pc = g[p].ret,
                  !.evictedItems = g[p].evictedItems]

\* ------------------------------------------------------------------ Store

\* Store, up to its Lock (cache.go:64-73): the expiry is computed from the
\* clock before the lock is requested.
CallStore(p, k, v, d) ==
    /\ ~Crashed
    /\ g[p].pc = "Idle"
    /\ g' = [g EXCEPT ![p] = [@ EXCEPT !.pc = "StoreLock", !.ret = g[p].pc,
                                       !.key = k, !.val = v,
                                       !.exp = StoreExp(d, defaultExpiration, now),
                                       !.due = Due(d, newExpiration, now)]]
    /\ UNCHANGED <<now, newExpiration, defaultExpiration, items, mu, onEvicted,
                   pending, spurious, lastStore>>
    /\ UNCHANGED <<manager, jwksVars, xdsVars, infraVars>>

\* Store's critical section (cache.go:74-79), and the return.  Called by Add
\* (cache.go:113-115), the return is followed by Add's Unlock and return nil.
StoreLock(p) ==
    /\ ~Crashed
    /\ g[p].pc = "StoreLock"
    /\ CanLock
    /\ items' = MapPut(items, g[p].key, Item(g[p].val, g[p].exp))
    /\ lastStore' = MapPut(lastStore, g[p].key,
                           [v |-> g[p].val, due |-> g[p].due])
    /\ IF g[p].ret = "Add"
       THEN /\ mu' = [mu EXCEPT !.w = 0]
            /\ g' = [g EXCEPT ![p] = IdleG]
       ELSE /\ mu' = mu
            /\ g' = [g EXCEPT ![p] = Return(p)]
    /\ UNCHANGED <<now, newExpiration, defaultExpiration, onEvicted, pending, spurious>>
    /\ UNCHANGED <<manager, jwksVars, xdsVars, infraVars>>

\* ------------------------------------------------------------------ Get

CallGet(p, k) ==
    /\ ~Crashed
    /\ g[p].pc = "Idle"
    /\ g' = [g EXCEPT ![p] = [@ EXCEPT !.pc = "GetRLock", !.ret = g[p].pc, !.key = k]]
    /\ UNCHANGED <<now, newExpiration, defaultExpiration, items, mu, onEvicted,
                   pending, spurious, lastStore>>
    /\ UNCHANGED <<manager, jwksVars, xdsVars, infraVars>>

GetRLockMutEvict(p) ==
    /\ ~Crashed
    /\ g[p].pc = "GetRLock"
    /\ CanRLock
    /\ mu' = [mu EXCEPT !.r = @ \cup {p}]
    /\ LET res == GetResult(items, g[p].key, now)
       IN  /\ g' = [g EXCEPT ![p] = [@ EXCEPT !.pc = "GetRUnlock",
                                              !.found = res[1], !.obj = res[2]]]
           /\ items' = IF g[p].key \in DOMAIN items /\ ~res[1]
                       THEN MapDelete(items, g[p].key) ELSE items
    /\ UNCHANGED <<now, newExpiration, defaultExpiration, onEvicted,
                   pending, spurious, lastStore>>
    /\ UNCHANGED <<manager, jwksVars, xdsVars, infraVars>>

\* Get's RLock, its lookup and its reading of the clock (cache.go:85-98).  The
\* map cannot change while the read lock is held, so the lookup and the clock
\* reading are one step.
GetRLock(p) ==
    /\ ~Crashed
    /\ g[p].pc = "GetRLock"
    /\ CanRLock
    /\ mu' = [mu EXCEPT !.r = @ \cup {p}]
    /\ LET res == GetResult(items, g[p].key, now)
       IN  g' = [g EXCEPT ![p] = [@ EXCEPT !.pc = "GetRUnlock",
                                           !.found = res[1], !.obj = res[2]]]
    /\ UNCHANGED <<now, newExpiration, defaultExpiration, items, onEvicted,
                   pending, spurious, lastStore>>
    /\ UNCHANGED <<manager, jwksVars, xdsVars, infraVars>>

\* Get's RUnlock and return (cache.go:89-101).  Called by Add (cache.go:108-113),
\* the return is followed by Add's test of found: Unlock and return the error,
\* or enter Store.
GetRUnlock(p) ==
    /\ ~Crashed
    /\ g[p].pc = "GetRUnlock"
    /\ IF g[p].ret = "Add"
       THEN IF g[p].found
            THEN /\ mu' = [w |-> 0, r |-> mu.r \ {p}]
                 /\ g' = [g EXCEPT ![p] = IdleG]
            ELSE /\ mu' = [mu EXCEPT !.r = @ \ {p}]
                 /\ g' = [g EXCEPT ![p] =
                            [@ EXCEPT !.pc = "StoreLock",
                                      !.exp = StoreExp(g[p].dur, defaultExpiration, now),
                                      !.due = Due(g[p].dur, newExpiration, now)]]
       ELSE /\ mu' = [mu EXCEPT !.r = @ \ {p}]
            /\ g' = [g EXCEPT ![p] = Return(p)]
    /\ UNCHANGED <<now, newExpiration, defaultExpiration, items, onEvicted,
                   pending, spurious, lastStore>>
    /\ UNCHANGED <<manager, jwksVars, xdsVars, infraVars>>

\* ------------------------------------------------------------------ Add

CallAdd(p, k, v, d) ==
    /\ ~Crashed
    /\ g[p].pc = "Idle"
    /\ g' = [g EXCEPT ![p] = [@ EXCEPT !.pc = "AddLock", !.ret = "Add",
                                       !.key = k, !.val = v, !.dur = d]]
    /\ UNCHANGED <<now, newExpiration, defaultExpiration, items, mu, onEvicted,
                   pending, spurious, lastStore>>
    /\ UNCHANGED <<manager, jwksVars, xdsVars, infraVars>>

\* Add's Lock, and its call of Get (cache.go:107-108).
AddLock(p) ==
    /\ ~Crashed
    /\ g[p].pc = "AddLock"
    /\ CanLock
    /\ mu' = [mu EXCEPT !.w = p]
    /\ g' = [g EXCEPT ![p] = [@ EXCEPT !.pc = "GetRLock"]]
    /\ UNCHANGED <<now, newExpiration, defaultExpiration, items, onEvicted,
                   pending, spurious, lastStore>>
    /\ UNCHANGED <<manager, jwksVars, xdsVars, infraVars>>

\* ------------------------------------------------------------------ DeleteExpired

CallDeleteExpired(p) ==
    /\ ~Crashed
    /\ g[p].pc = "Idle"
    /\ g' = [g EXCEPT ![p] = [@ EXCEPT !.pc = "DELock"]]
    /\ UNCHANGED <<now, newExpiration, defaultExpiration, items, mu, onEvicted,
                   pending, spurious, lastStore>>
    /\ UNCHANGED <<manager, jwksVars, xdsVars, infraVars>>

\* DeleteExpired's Lock and the start of its range over the map (cache.go:127-128).
DELock(p) ==
    /\ ~Crashed
    /\ g[p].pc = "DELock"
    /\ CanLock
    /\ mu' = [mu EXCEPT !.w = p]
    /\ g' = [g EXCEPT ![p] = [@ EXCEPT !.pc = "DEScan", !.scan = DOMAIN items]]
    /\ UNCHANGED <<now, newExpiration, defaultExpiration, items, onEvicted,
                   pending, spurious, lastStore>>
    /\ UNCHANGED <<manager, jwksVars, xdsVars, infraVars>>

\* One iteration of the range, in the map's arbitrary order (cache.go:128-135):
\* Expired reads the clock for each item.
DEScan(p, k) ==
    /\ ~Crashed
    /\ g[p].pc = "DEScan"
    /\ k \in g[p].scan
    /\ IF Expired(items[k], now)
       THEN LET r == delete(items, k, onEvicted)
            IN  /\ items' = MapDelete(items, k)
                /\ g' = [g EXCEPT ![p] =
                           [@ EXCEPT !.scan = @ \ {k},
                                     !.evictedItems =
                                        IF r[2] THEN Append(@, <<k, r[1]>>) ELSE @]]
                /\ pending' = IF onEvicted # "nil"
                              THEN [pending EXCEPT ![<<k, items[k].Object>>] = @ + 1]
                              ELSE pending
       ELSE /\ g' = [g EXCEPT ![p] = [@ EXCEPT !.scan = @ \ {k}]]
            /\ UNCHANGED <<items, pending>>
    /\ UNCHANGED <<now, newExpiration, defaultExpiration, mu, onEvicted,
                   spurious, lastStore>>
    /\ UNCHANGED <<manager, jwksVars, xdsVars, infraVars>>

\* The end of the range: Unlock (cache.go:136).
DEUnlockMutKeepLock(p) ==
    /\ ~Crashed
    /\ g[p].pc = "DEScan"
    /\ g[p].scan = {}
    /\ g' = [g EXCEPT ![p] = [@ EXCEPT !.pc = "DECallbacks"]]
    /\ UNCHANGED <<now, newExpiration, defaultExpiration, items, mu, onEvicted,
                   pending, spurious, lastStore>>
    /\ UNCHANGED <<manager, jwksVars, xdsVars, infraVars>>

DEUnlock(p) ==
    /\ ~Crashed
    /\ g[p].pc = "DEScan"
    /\ g[p].scan = {}
    /\ mu' = [mu EXCEPT !.w = 0]
    /\ g' = [g EXCEPT ![p] = [@ EXCEPT !.pc = "DECallbacks"]]
    /\ UNCHANGED <<now, newExpiration, defaultExpiration, items, onEvicted,
                   pending, spurious, lastStore>>
    /\ UNCHANGED <<manager, jwksVars, xdsVars, infraVars>>

\* One iteration of the second loop (cache.go:138-140): c.onEvicted is read,
\* without the lock, and called.  Calling a nil func panics.
DEInvoke(p) ==
    /\ ~Crashed
    /\ g[p].pc = "DECallbacks"
    /\ g[p].evictedItems # <<>>
    /\ LET kv == Head(g[p].evictedItems)
       IN  IF onEvicted = "nil"
           THEN /\ g' = [g EXCEPT ![p] = [@ EXCEPT !.pc = "panic"]]
                /\ UNCHANGED <<pending, spurious>>
           ELSE /\ g' = [g EXCEPT ![p] = [@ EXCEPT !.pc = "InCallback",
                                                   !.evictedItems = Tail(@)]]
                /\ IF pending[kv] > 0
                   THEN /\ pending' = [pending EXCEPT ![kv] = @ - 1]
                        /\ spurious' = spurious
                   ELSE /\ pending' = pending
                        /\ spurious' = TRUE
    /\ UNCHANGED <<now, newExpiration, defaultExpiration, items, mu, onEvicted, lastStore>>
    /\ UNCHANGED <<manager, jwksVars, xdsVars, infraVars>>

\* The callback calls Store, Get or OnEvicted of the cache it was called by.
CallbackCalls(p, m, k, d, f) ==
    /\ ~Crashed
    /\ g[p].pc = "InCallback"
    /\ m \in {"StoreLock", "GetRLock", "OnEvictedLock"}
    /\ g' = [g EXCEPT ![p] =
                IF m = "StoreLock"
                THEN [@ EXCEPT !.pc = m, !.ret = "InCallback", !.key = k,
                               !.val = ValOf(p),
                               !.exp = StoreExp(d, defaultExpiration, now),
                               !.due = Due(d, newExpiration, now)]
                ELSE IF m = "GetRLock"
                THEN [@ EXCEPT !.pc = m, !.ret = "InCallback", !.key = k]
                ELSE [@ EXCEPT !.pc = m, !.ret = "InCallback", !.val = f]]
    /\ UNCHANGED <<now, newExpiration, defaultExpiration, items, mu, onEvicted,
                   pending, spurious, lastStore>>
    /\ UNCHANGED <<manager, jwksVars, xdsVars, infraVars>>

\* The callback returns.
CallbackReturn(p) ==
    /\ ~Crashed
    /\ g[p].pc = "InCallback"
    /\ g' = [g EXCEPT ![p] = [@ EXCEPT !.pc = "DECallbacks"]]
    /\ UNCHANGED <<now, newExpiration, defaultExpiration, items, mu, onEvicted,
                   pending, spurious, lastStore>>
    /\ UNCHANGED <<manager, jwksVars, xdsVars, infraVars>>

\* The second loop is over: DeleteExpired returns (cache.go:141).
DEDone(p) ==
    /\ ~Crashed
    /\ g[p].pc = "DECallbacks"
    /\ g[p].evictedItems = <<>>
    /\ g' = [g EXCEPT ![p] = IdleG]
    /\ UNCHANGED <<now, newExpiration, defaultExpiration, items, mu, onEvicted,
                   pending, spurious, lastStore>>
    /\ UNCHANGED <<manager, jwksVars, xdsVars, infraVars>>

\* ------------------------------------------------------------------ OnEvicted

CallOnEvicted(p, f) ==
    /\ ~Crashed
    /\ g[p].pc = "Idle"
    /\ g' = [g EXCEPT ![p] = [@ EXCEPT !.pc = "OnEvictedLock", !.ret = g[p].pc, !.val = f]]
    /\ UNCHANGED <<now, newExpiration, defaultExpiration, items, mu, onEvicted,
                   pending, spurious, lastStore>>
    /\ UNCHANGED <<manager, jwksVars, xdsVars, infraVars>>

\* OnEvicted's critical section (cache.go:158-160).
OnEvictedLock(p) ==
    /\ ~Crashed
    /\ g[p].pc = "OnEvictedLock"
    /\ CanLock
    /\ onEvicted' = g[p].val
    /\ g' = [g EXCEPT ![p] = Return(p)]
    /\ UNCHANGED <<now, newExpiration, defaultExpiration, items, mu,
                   pending, spurious, lastStore>>
    /\ UNCHANGED <<manager, jwksVars, xdsVars, infraVars>>

\* ------------------------------------------------------------------ the clock

Tick ==
    /\ ~Crashed
    /\ now < MaxTime
    /\ now' = now + 1
    /\ UNCHANGED <<newExpiration, defaultExpiration, items, mu, onEvicted, g,
                   pending, spurious, lastStore>>
    /\ UNCHANGED <<manager, jwksVars, xdsVars, infraVars>>

\* ------------------------------------------------------------------ Kubernetes infrastructure

\* The listeners of an infra IR are bounded.
MaxListeners == 2

\* Names are the sequences of their parts between dashes;
\* fmt.Sprintf("%s-%s", a, b) (part_008:43, 73).
EnvoyServiceName == <<"envoy">>
Sprintf(a, b) == a \o b

\* The listeners of ir.Infra.Proxy: a name and the service port of its one
\* port.  Labelled is whether the proxy metadata has the owning gatewayclass
\* label.
ListenerNames == {<<"l1">>, <<"envoy", "l1">>}
ServicePorts == {80, 81}
ProxyListener(name, port) == [Name |-> name, Port |-> port]
ProxyListeners == {ProxyListener(n, p) : n \in ListenerNames, p \in ServicePorts}
Infra(listeners, labelled) == [Listeners |-> listeners, Labelled |-> labelled]

\* The lists of at most MaxListeners listeners with different names.
ListenerLists ==
    UNION {{ls \in [1..n -> ProxyListeners] :
                \A a, b \in 1..n : a # b => ls[a].Name # ls[b].Name} :
           n \in 0..MaxListeners}

Infras == {Infra(ls, lab) : ls \in ListenerLists, lab \in BOOLEAN}

\* A corev1.Service: its name and, of its Spec, the ports.
Service(name, spec) == [Name |-> name, Spec |-> spec]
NoService == Service(<<>>, 0)

\* expectedServices (part_008:20-59): one Service per listener, in order.
expectedServices(infra) ==
    IF infra.Listeners # <<>> /\ ~infra.Labelled
    THEN [err |-> "missing owning gatewayclass label", svcs |-> <<>>]
    ELSE [err |-> "nil",
          svcs |-> [i \in 1..Len(infra.Listeners) |->
                       Service(Sprintf(EnvoyServiceName, infra.Listeners[i].Name),
                               infra.Listeners[i].Port)]]

\* The loop of createOrUpdateServices (part_008:67-101) over the expected
\* Services: Get under the key of line 71-74, then Create or Update, then
\* updateResource (part_006:60-79).  api is the Services of the API server.
RECURSIVE createOrUpdateLoop(_, _, _, _)
createOrUpdateLoop(svcs, api, rec, res) ==
    IF svcs = <<>>
    THEN [err |-> "nil", services |-> api, recorded |-> rec, Service |-> res]
    ELSE LET svc == Head(svcs)
             key == Sprintf(EnvoyServiceName, svc.Name)
             return(e) == [err |-> e, services |-> api, recorded |-> rec, Service |-> res]
             next(a) == createOrUpdateLoop(Tail(svcs), a, rec \cup {svc.Name}, svc)
         IN  IF key \notin DOMAIN api
             THEN IF svc.Name \in DOMAIN api
                  THEN return("nil")
                  ELSE next(MapPut(api, svc.Name,
                                   [Spec |-> svc.Spec, creator |-> "infra"]))
             ELSE IF svc.Spec # api[key].Spec
             THEN IF svc.Name \notin DOMAIN api
                  THEN return("failed to update service")
                  ELSE next([api EXCEPT ![svc.Name].Spec = svc.Spec])
             ELSE next(api)

\* createOrUpdateServices (part_008:61-104).
createOrUpdateServices(infra, api, res) ==
    LET expected == expectedServices(infra)
    IN  IF expected.err # "nil"
        THEN [err |-> "failed to generate expected services", services |-> api,
              recorded |-> {}, Service |-> res]
        ELSE createOrUpdateLoop(expected.svcs, api, {}, res)

CreateOrUpdateServices(infra) ==
    /\ ipc = "Idle"
    /\ LET r == createOrUpdateServices(infra, services, resources)
       IN  /\ services' = r.services
           /\ resources' = r.Service
           /\ recorded' = r.recorded
           /\ ierr' = r.err
    /\ UNCHANGED <<svcList, atStart, ipc>>
    /\ UNCHANGED <<cacheVars, jwksVars, xdsVars>>

\* The orders in which a list can give the Services of api.
Listings(api) ==
    {l \in [1..Cardinality(DOMAIN api) -> DOMAIN api] :
         \A a, b \in DOMAIN l : a # b => l[a] # l[b]}

\* DeleteInfra (part_006:110-129) up to the List of deleteServices
\* (part_008:107-111): a nil IR is an error; the list is of every Service of
\* the namespace.
DeleteInfra(nilInfra) ==
    /\ ipc = "Idle"
    /\ IF nilInfra
       THEN /\ ierr' = "infra ir is nil"
            /\ UNCHANGED <<svcList, atStart, ipc>>
       ELSE /\ \E l \in Listings(services) : svcList' = l
            /\ atStart' = services
            /\ ipc' = "Deleting"
            /\ ierr' = "nil"
    /\ UNCHANGED <<services, resources, recorded>>
    /\ UNCHANGED <<cacheVars, jwksVars, xdsVars>>

\* One turn of the loop of deleteServices (part_008:113-121), or its return
\* after the last: a Service that is not found ends the call with nil.
DeleteNext ==
    /\ ipc = "Deleting"
    /\ IF svcList = <<>>
       THEN /\ ipc' = "Idle"
            /\ UNCHANGED <<services, svcList>>
       ELSE IF Head(svcList) \in DOMAIN services
       THEN /\ services' = MapDelete(services, Head(svcList))
            /\ svcList' = Tail(svcList)
            /\ ipc' = ipc
       ELSE /\ ipc' = "Idle"
            /\ svcList' = <<>>
            /\ services' = services
    /\ UNCHANGED <<resources, recorded, atStart, ierr>>
    /\ UNCHANGED <<cacheVars, jwksVars, xdsVars>>

\* Somebody else creates a Service in the namespace, or deletes one.
OtherNames == {<<"other">>}

OtherCreate(name, spec) ==
    /\ name \notin DOMAIN services
    /\ services' = MapPut(services, name, [Spec |-> spec, creator |-> "other"])
    /\ UNCHANGED <<resources, recorded, svcList, atStart, ipc, ierr>>
    /\ UNCHANGED <<cacheVars, jwksVars, xdsVars>>

OtherDelete(name) ==
    /\ name \in DOMAIN services
    /\ services' = MapDelete(services, name)
    /\ UNCHANGED <<resources, recorded, svcList, atStart, ipc, ierr>>
    /\ UNCHANGED <<cacheVars, jwksVars, xdsVars>>

\* NewInfra (part_006:35-56), and a namespace without Services.
InfraIdle ==
    /\ services = <<>>
    /\ resources = NoService
    /\ recorded = {}
    /\ svcList = <<>>
    /\ atStart = <<>>
    /\ ipc = "Idle"
    /\ ierr = "nil"

\* ------------------------------------------------------------------ manager

\* The goroutine runManager starts (cache.go:170-177), and the cleanup
\* intervals New is called with.
ManagerG == 2
CleanupIntervals == {0, 1}

\* What New leaves in c.manager (cache.go:54-57): with a positive interval
\* runManager starts the loop, otherwise there is no manager.
runManager(ci) == IF ci > 0 THEN "running" ELSE "nil"

\* case <-ticker.C (cache.go:187-188): the loop, waiting in its select, calls
\* c.DeleteExpired().
RunTick ==
    /\ manager = "running"
    /\ CallDeleteExpired(ManagerG)

\* stopManager's send and case <-m.stop (cache.go:179-181, 189-191): the loop,
\* waiting in its select, stops its ticker and returns.
StopManager ==
    /\ ~Crashed
    /\ manager = "running"
    /\ g[ManagerG].pc = "Idle"
    /\ manager' = "stopped"
    /\ UNCHANGED <<now, newExpiration, defaultExpiration, items, mu, onEvicted, g,
                   pending, spurious, lastStore>>
    /\ UNCHANGED <<jwksVars, xdsVars, infraVars>>

\* ------------------------------------------------------------------ xDS translator

\* The routes of a listener and the filter chains of an xDS listener are
\* bounded.
MaxRoutes == 2
MaxChains == 2

\* Filter names (authentication.go:34, wellknown.Router,
\* wellknown.HTTPConnectionManager, wellknown.TlsInspector).
jwtAuthenFilter == "envoy.filters.http.jwt_authn"
RouterName == "envoy.filters.http.router"
HTTPConnectionManagerName == "envoy.filters.network.http_connection_manager"
TlsInspectorName == "envoy.filters.listener.tls_inspector"

\* All sequences over S of length at most n.
SeqsUpTo(S, n) == UNION {[1..m -> S] : m \in 0..n}

\* A v1alpha1.JwtAuthenticationFilterProvider.
Provider(name, issuer, uri) ==
    [Name |-> name, Issuer |-> issuer, Audiences |-> <<"aud">>,
     RemoteJWKS |-> [URI |-> uri]]

\* The providers routes declare: two that differ in the name only, one that
\* shares its name with another and differs in the issuer, and one whose
\* JWKS URI has a scheme that is neither http nor https.
Providers ==
    {Provider("n1", "i1", "https://h1"), Provider("n2", "i1", "https://h1"),
     Provider("n2", "i2", "https://h1"), Provider("n1", "i1", "ftp://h1")}

\* An *ir.HTTPRoute: a nil pointer, a route whose RequestAuthentication is
\* nil, one whose RequestAuthentication.JWT is nil, or one with a JWT whose
\* Providers are given.
Route(kind, providers) == [kind |-> kind, Providers |-> providers]

Routes ==
    {Route(k, <<>>) : k \in {"nil", "noRequestAuthentication", "noJWT"}}
    \cup {Route("jwt", ps) : ps \in SeqsUpTo(Providers, 2)}

\* An *ir.HTTPListener; nil is the nil pointer.
Listener(tls, hostnames, routes) ==
    [nil |-> FALSE, TLS |-> tls, Hostnames |-> hostnames, Routes |-> routes]

NilListener == [nil |-> TRUE, TLS |-> FALSE, Hostnames |-> <<>>, Routes |-> <<>>]

\* net.IP values, as their literals: IPv4 addresses, IPv6 addresses, and an
\* IPv6 address that maps an IPv4 address.
IPv4s == {"10.0.0.1", "10.0.0.2"}
IPv6s == {"::1", "::2"}
IPv4Mapped == {"::ffff:10.0.0.3"}
IPs == IPv4s \cup IPv6s \cup IPv4Mapped

\* ip.To4(): the IPv4 form of the address, "" for nil.
To4(ip) ==
    IF ip \in IPv4s THEN ip
    ELSE IF ip = "::ffff:10.0.0.3" THEN "10.0.0.3"
    ELSE ""

\* ip.String(): an address that has an IPv4 form is printed in that form.
String(ip) == IF To4(ip) # "" THEN To4(ip) ELSE ip

\* net.ParseIP: the address of a literal, "" (nil) for any other string.
ParseIP(str) == IF str \in IPs THEN str ELSE ""

\* What net.LookupIP returns: an error, or the addresses found.
Lookup(ips) == [err |-> FALSE, ips |-> ips]
LookupFails == [err |-> TRUE, ips |-> <<>>]

\* What the resolver answers for a host, at each call.
Hosts == {"h1"}
Resolvers == [Hosts -> {Lookup(<<"10.0.0.1">>), LookupFails}]

\* routeContainsJwtAuthn and listenerContainsJwtAuthn (authentication.go:354-385).
routeContainsJwtAuthn(irRoute) ==
    irRoute.kind = "jwt" /\ Len(irRoute.Providers) > 0

listenerContainsJwtAuthn(l) ==
    /\ ~l.nil
    /\ \E i \in 1..Len(l.Routes) : routeContainsJwtAuthn(l.Routes[i])

\* cmp.Equal(p, provider, opts) with the Name field ignored
\* (authentication.go:396, 411).
EqualMutWithName(p, q) == p = q

EqualIgnoringName(p, q) ==
    /\ p.Issuer = q.Issuer
    /\ p.Audiences = q.Audiences
    /\ p.RemoteJWKS = q.RemoteJWKS

\* The loop over the providers of one route (authentication.go:404-420).
RECURSIVE addProviders(_, _)
addProviders(providers, ps) ==
    IF ps = <<>> THEN providers
    ELSE LET provider == Head(ps)
             found == \E i \in 1..Len(providers) :
                          EqualIgnoringName(providers[i], provider)
         IN  addProviders(IF providers = <<>> \/ ~found
                          THEN Append(providers, provider)
                          ELSE providers,
                          Tail(ps))

\* The loop over the routes (authentication.go:398-422): the first route that
\* is nil or has no JWT ends it.
RECURSIVE uniqueFrom(_, _)
uniqueFrom(providers, routes) ==
    IF routes = <<>> THEN providers
    ELSE LET route == Head(routes)
         IN  IF route.kind # "jwt" THEN providers
             ELSE uniqueFrom(addProviders(providers, route.Providers), Tail(routes))

\* uniqueJwtAuthnProviders (authentication.go:387-423).
uniqueJwtAuthnProviders(listener) ==
    IF listener.nil \/ Len(listener.Routes) = 0 THEN <<>>
    ELSE uniqueFrom(<<>>, listener.Routes)

\* url.Parse on the URIs of the providers.
UrlParse(uri) ==
    IF uri = "https://h1" THEN [Scheme |-> "https", Host |-> "h1", Port |-> ""]
    ELSE [Scheme |-> "ftp", Host |-> "h1", Port |-> ""]

\* The loop of resolveHostname over the addresses found
\* (authentication.go:340-345).
RECURSIVE onlyIPv4(_)
onlyIPv4(ips) ==
    IF ips = <<>> THEN <<>>
    ELSE IF To4(Head(ips)) # "" THEN <<String(Head(ips))>> \o onlyIPv4(Tail(ips))
    ELSE onlyIPv4(Tail(ips))

\* The fallback of resolveHostname when the lookup fails
\* (authentication.go:328-336).
fallbackMutAnyIP(hostname_) ==
    IF ParseIP(hostname_) # ""
    THEN [err |-> "nil", addrs |-> <<String(ParseIP(hostname_))>>]
    ELSE [err |-> "failed to parse hostname", addrs |-> <<>>]

fallback(hostname_) ==
    IF ParseIP(hostname_) # "" /\ To4(ParseIP(hostname_)) # ""
    THEN [err |-> "nil", addrs |-> <<To4(ParseIP(hostname_))>>]
    ELSE [err |-> "failed to parse hostname", addrs |-> <<>>]

\* resolveHostname (authentication.go:325-352); dns is what net.LookupIP
\* answers.
resolveHostname(hostname_, dns) ==
    LET ret == onlyIPv4(dns[hostname_].ips)
    IN  IF dns[hostname_].err THEN fallback(hostname_)
        ELSE IF ret = <<>>
        THEN [err |-> "does not resolve to an IPv4 address", addrs |-> <<>>]
        ELSE [err |-> "nil", addrs |-> ret]

\* newJwksCluster (authentication.go:251-292); the cluster name is the host
\* and the port.
newJwksCluster(provider, dns) ==
    LET u == UrlParse(provider.RemoteJWKS.URI)
        strPort == IF u.Port # "" THEN u.Port
                   ELSE IF u.Scheme = "http" THEN "80" ELSE "443"
        addrs == resolveHostname(u.Host, dns)
    IN  IF u.Scheme \notin {"http", "https"}
        THEN [err |-> "unsupported JWKS URI scheme", name |-> <<>>]
        ELSE IF addrs.err # "nil" THEN [err |-> addrs.err, name |-> <<>>]
        ELSE [err |-> "nil", name |-> <<u.Host, strPort>>]

\* A jwtext.JwtRequirement: a provider name, an any-of list, an all-of list,
\* or allow-missing.
ProviderName(name) == [t |-> "provider_name", name |-> name, reqs |-> <<>>]
RequiresAny(reqs) == [t |-> "requires_any", name |-> "", reqs |-> reqs]
RequiresAll(reqs) == [t |-> "requires_all", name |-> "", reqs |-> reqs]
AllowMissing == [t |-> "allow_missing", name |-> "", reqs |-> <<>>]

\* A jwtext.JwtAuthentication with its one rule, which matches the prefix "/";
\* Providers is a map, a function on the names present.
JwtAuthentication(providers, requires) ==
    [Providers |-> providers, Prefix |-> "/", Requires |-> requires]

NoJwtAuthentication == JwtAuthentication(<<>>, AllowMissing)

\* The loop of buildJwtAuthn over the deduplicated providers
\* (authentication.go:103-136).
RECURSIVE buildLoop(_, _, _, _)
buildLoop(irProviders, dns, jwtProviders, reqs) ==
    IF irProviders = <<>>
    THEN [err |-> "nil", Providers |-> jwtProviders, reqs |-> reqs]
    ELSE LET irProvider == Head(irProviders)
             cluster == newJwksCluster(irProvider, dns)
             provider == [Issuer |-> irProvider.Issuer,
                          Audiences |-> irProvider.Audiences,
                          Uri |-> irProvider.RemoteJWKS.URI,
                          Cluster |-> cluster.name]
         IN  IF cluster.err # "nil"
             THEN [err |-> cluster.err, Providers |-> <<>>, reqs |-> <<>>]
             ELSE buildLoop(Tail(irProviders), dns,
                            MapPut(jwtProviders, irProvider.Name, provider),
                            Append(reqs, ProviderName(irProvider.Name)))

\* buildJwtAuthn (authentication.go:93-177); with a nil listener the error
\* message of line 100 dereferences it.
buildJwtAuthn(irListener_, dns) ==
    LET irProviders == uniqueJwtAuthnProviders(irListener_)
        built == buildLoop(irProviders, dns, <<>>, <<>>)
    IN  IF Len(irProviders) = 0
        THEN [err |-> IF irListener_.nil THEN "panic"
                      ELSE "listener contains no jwt authn providers",
              cfg |-> NoJwtAuthentication]
        ELSE IF built.err # "nil" THEN [err |-> built.err, cfg |-> NoJwtAuthentication]
        ELSE IF Len(irProviders) = 1
        THEN [err |-> "nil", cfg |-> JwtAuthentication(built.Providers, built.reqs[1])]
        ELSE [err |-> "nil",
              cfg |-> JwtAuthentication(built.Providers, RequiresAny(built.reqs))]

\* An hcm.HttpFilter; the router's configuration is empty.
HttpFilter(name, cfg) == [Name |-> name, TypedConfig |-> cfg]
RouterFilter == HttpFilter(RouterName, NoJwtAuthentication)

\* The nil *hcm.HttpFilter a failed build returns.
NoHttpFilter == HttpFilter("", NoJwtAuthentication)

\* buildJwtAuthnFilter (authentication.go:69-90); valid is whether
\* ValidateAll, generated code outside the repository, accepts the
\* configuration.
buildJwtAuthnFilterMutNoErr(irListener_, dns, valid) ==
    [err |-> "nil",
     filter |-> HttpFilter(jwtAuthenFilter, buildJwtAuthn(irListener_, dns).cfg)]

buildJwtAuthnFilter(irListener_, dns, valid) ==
    LET jwtAuthnProto == buildJwtAuthn(irListener_, dns)
    IN  IF jwtAuthnProto.err # "nil"
        THEN [err |-> jwtAuthnProto.err, filter |-> NoHttpFilter]
        ELSE IF ~valid
        THEN [err |-> "invalid JwtAuthentication", filter |-> NoHttpFilter]
        ELSE [err |-> "nil",
              filter |-> HttpFilter(jwtAuthenFilter, jwtAuthnProto.cfg)]

\* An *hcm.HttpConnectionManager; nil is the nil pointer.
Mgr(httpFilters) == [nil |-> FALSE, HttpFilters |-> httpFilters]
NilMgr == [nil |-> TRUE, HttpFilters |-> <<>>]

\* append([]*hcm.HttpFilter{jwtFilter}, mgr.HttpFilters...) (authentication.go:64).
prependMutAppend(filter, httpFilters) == Append(httpFilters, filter)

prepend(filter, httpFilters) == <<filter>> \o httpFilters

\* patchHCMWithJwtAuthnFilter (authentication.go:38-67): the error returned
\* and the HttpFilters of the connection manager after the call.
patchHCMMutNoPresentCheck(mgr_, irListener_, dns, valid) ==
    LET same(err) == [err |-> err, HttpFilters |-> mgr_.HttpFilters]
        jwtFilter_ == buildJwtAuthnFilter(irListener_, dns, valid)
    IN  IF mgr_.nil THEN same("hcm is nil")
        ELSE IF irListener_.nil THEN same("ir listener is nil")
        ELSE IF ~listenerContainsJwtAuthn(irListener_) THEN same("nil")
        ELSE IF jwtFilter_.err # "nil" THEN same(jwtFilter_.err)
        ELSE [err |-> "nil", HttpFilters |-> prepend(jwtFilter_.filter, mgr_.HttpFilters)]

patchHCMWithJwtAuthnFilter(mgr_, irListener_, dns, valid) ==
    LET same(err) == [err |-> err, HttpFilters |-> mgr_.HttpFilters]
        jwtFilter_ == buildJwtAuthnFilter(irListener_, dns, valid)
    IN  IF mgr_.nil THEN same("hcm is nil")
        ELSE IF irListener_.nil THEN same("ir listener is nil")
        ELSE IF ~listenerContainsJwtAuthn(irListener_) THEN same("nil")
        ELSE IF \E i \in 1..Len(mgr_.HttpFilters) :
                    mgr_.HttpFilters[i].Name = jwtAuthenFilter
        THEN same("nil")
        ELSE IF jwtFilter_.err # "nil" THEN same(jwtFilter_.err)
        ELSE [err |-> "nil", HttpFilters |-> prepend(jwtFilter_.filter, mgr_.HttpFilters)]

\* A *listener.FilterChain with its one network filter, the connection
\* manager as it was when the chain was built; nil is the nil pointer.
FilterChain(m, tls, serverNames) ==
    [nil |-> FALSE,
     Filters |-> <<[Name |-> HTTPConnectionManagerName, TypedConfig |-> m]>>,
     TransportSocket |-> tls, ServerNames |-> serverNames]

NilFilterChain ==
    [nil |-> TRUE, Filters |-> <<>>, TransportSocket |-> FALSE, ServerNames |-> <<>>]

\* buildXdsTCPListener (part_002:36-59): no filter chain and no listener filter.
NewXdsListener ==
    [DefaultFilterChain |-> NilFilterChain, FilterChains |-> <<>>,
     ListenerFilters |-> <<>>]

\* addXdsTLSInspectorFilter (part_002:231-255).
addXdsTLSInspectorFilterMutAlways(listenerFilters) ==
    Append(listenerFilters, TlsInspectorName)

addXdsTLSInspectorFilter(listenerFilters) ==
    IF \E i \in 1..Len(listenerFilters) : listenerFilters[i] = TlsInspectorName
    THEN listenerFilters
    ELSE Append(listenerFilters, TlsInspectorName)

\* addServerNamesMatch (part_002:139-152): whether the chain gets a match on
\* the server names.
HasServerNamesMatch(hostnames) == Len(hostnames) > 0 /\ hostnames[1] # "*"

\* addXdsHTTPFilterChain (part_002:61-137): the error returned, the xDS
\* listener after the call and the connection manager built.  A nil listener
\* is dereferenced at line 74.
addXdsHTTPFilterChain(xdsListener_, irListener_) ==
    LET m == Mgr(<<RouterFilter>>)
        sni == HasServerNamesMatch(irListener_.Hostnames)
        filterChain == FilterChain(m, irListener_.TLS,
                                   IF irListener_.TLS /\ sni
                                   THEN irListener_.Hostnames ELSE <<>>)
    IN  IF irListener_.nil
        THEN [err |-> "panic", xdsListener |-> xdsListener_, mgr |-> NilMgr]
        ELSE IF irListener_.TLS
        THEN [err |-> "nil",
              xdsListener |->
                  [xdsListener_ EXCEPT
                     !.ListenerFilters =
                         IF sni THEN addXdsTLSInspectorFilter(@) ELSE @,
                     !.FilterChains = Append(@, filterChain)],
              mgr |-> m]
        ELSE IF ~xdsListener_.DefaultFilterChain.nil
        THEN [err |-> "default filter chain already exists",
              xdsListener |-> xdsListener_, mgr |-> NilMgr]
        ELSE [err |-> "nil",
              xdsListener |-> [xdsListener_ EXCEPT !.DefaultFilterChain = filterChain],
              mgr |-> m]

\* addXdsHTTPFilterChain(xdsListener, l): l becomes the listener of the pass.
\* A call that returns an error, or panics, leaves no connection manager
\* behind.
AddXdsHTTPFilterChainFor(l) ==
    /\ xerr # "panic"
    /\ Len(xdsListener.FilterChains) < MaxChains
    /\ LET res == addXdsHTTPFilterChain(xdsListener, l)
       IN  /\ xdsListener' = res.xdsListener
           /\ mgr' = IF res.err = "nil" THEN res.mgr ELSE mgr
           /\ xerr' = res.err
    /\ irListener' = l
    /\ UNCHANGED <<jwtFilter, dnsVars>>
    /\ UNCHANGED <<cacheVars, jwksVars, infraVars>>

\* addXdsHTTPFilterChain on the listener of the pass.
AddXdsHTTPFilterChain == AddXdsHTTPFilterChainFor(irListener)

\* An *ir.TCPListener: TLS is whether the TLSInspectorConfig is there, SNIs
\* are its server names; nil is the nil pointer.
TCPListener(tls, snis) == [nil |-> FALSE, TLS |-> tls, SNIs |-> snis]

NilTCPListener == [nil |-> TRUE, TLS |-> FALSE, SNIs |-> <<>>]

TCPProxyName == "envoy.filters.network.tcp_proxy"

\* addXdsTCPFilterChain (part_002:178-228): the error returned and the xDS
\* listener after the call.
addXdsTCPFilterChain(xdsListener_, irListener_, clusterName) ==
    LET sni == irListener_.TLS /\ HasServerNamesMatch(irListener_.SNIs)
        statPrefix == IF irListener_.TLS THEN "passthrough" ELSE "tcp"
        filterChain ==
            [nil |-> FALSE,
             Filters |-> <<[Name |-> TCPProxyName,
                            TypedConfig |-> [StatPrefix |-> statPrefix,
                                             Cluster |-> clusterName]]>>,
             TransportSocket |-> FALSE,
             ServerNames |-> IF sni THEN irListener_.SNIs ELSE <<>>]
    IN  IF irListener_.nil
        THEN [err |-> "tcp listener is nil", xdsListener |-> xdsListener_]
        ELSE [err |-> "nil",
              xdsListener |->
                  [xdsListener_ EXCEPT
                     !.ListenerFilters =
                         IF sni THEN addXdsTLSInspectorFilter(@) ELSE @,
                     !.FilterChains = Append(@, filterChain)]]

\* addXdsTCPFilterChain(xdsListener, l, "c1").
AddXdsTCPFilterChain(l) ==
    /\ xerr # "panic"
    /\ Len(xdsListener.FilterChains) < MaxChains
    /\ LET res == addXdsTCPFilterChain(xdsListener, l, "c1")
       IN  /\ xdsListener' = res.xdsListener
           /\ xerr' = res.err
    /\ UNCHANGED <<irListener, mgr, jwtFilter, dnsVars>>
    /\ UNCHANGED <<cacheVars, jwksVars, infraVars>>

\* patchHCMWithJwtAuthnFilter(mgr, l) with the resolver dns and the verdict
\* valid of ValidateAll.
PatchHCMWithJwtAuthnFilter(l, dns, valid) ==
    /\ xerr # "panic"
    /\ LET res == patchHCMWithJwtAuthnFilter(mgr, l, dns, valid)
       IN  /\ mgr' = [mgr EXCEPT !.HttpFilters = res.HttpFilters]
           /\ xerr' = res.err
    /\ UNCHANGED <<irListener, xdsListener, jwtFilter, dnsVars>>
    /\ UNCHANGED <<cacheVars, jwksVars, infraVars>>

\* An *ir.JWTRule (part_002:413-436), with or without RemoteJwks.
JWTRule(issuer, remote) ==
    [Issuer |-> issuer, Audiences |-> <<"aud">>, RemoteJwks |-> remote]

\* The rule lists JwtFilter is called with.
RuleLists ==
    {<<>>, <<JWTRule("i1", TRUE)>>, <<JWTRule("i1", TRUE), JWTRule("i2", FALSE)>>}

\* The name of the i-th provider, counted from 0 (part_002:439).
OriginName(i) == <<"origins", i>>

\* convertToEnvoyJwtConfig (part_002:398-521), as its comments and
\* indentation have it: the loop ends at line 464.
convertToEnvoyJwtConfig(rules) ==
    LET n == Len(rules)
        provider(i) == [Issuer |-> rules[i].Issuer,
                        Audiences |-> rules[i].Audiences,
                        Uri |-> IF rules[i].RemoteJwks THEN "remote" ELSE "local",
                        Cluster |-> <<>>]
        providers == [nm \in {OriginName(i - 1) : i \in 1..n} |-> provider(nm[2] + 1)]
        innerAndList == [i \in 1..n |->
                            RequiresAny(<<ProviderName(OriginName(i - 1)), AllowMissing>>)]
        outterOrList == [i \in 1..n |-> ProviderName(OriginName(i - 1))]
    IN  IF n = 0 THEN [nil |-> TRUE, cfg |-> NoJwtAuthentication]
        ELSE IF n = 1
        THEN [nil |-> FALSE, cfg |-> JwtAuthentication(providers, innerAndList[1])]
        ELSE [nil |-> FALSE,
              cfg |-> JwtAuthentication(providers,
                          RequiresAny(Append(outterOrList, RequiresAll(innerAndList))))]

\* An *hcm.HttpFilter that may be nil.
NilHttpFilter == [nil |-> TRUE, Name |-> "", TypedConfig |-> NoJwtAuthentication]

\* JwtFilter (part_002:376-393).
JwtFilter(jwtRules) ==
    /\ xerr # "panic"
    /\ LET jwtCfgProto == convertToEnvoyJwtConfig(jwtRules)
       IN  jwtFilter' = IF Len(jwtRules) = 0 \/ jwtCfgProto.nil
                        THEN NilHttpFilter
                        ELSE [nil |-> FALSE, Name |-> jwtAuthenFilter,
                              TypedConfig |-> jwtCfgProto.cfg]
    /\ UNCHANGED <<irListener, xdsListener, mgr, xerr, dnsVars>>
    /\ UNCHANGED <<cacheVars, jwksVars, infraVars>>

\* resolveHostname was not called.
NotResolved == [err |-> "none", addrs |-> <<>>]

DnsIdle ==
    /\ hostname = ""
    /\ lookup = LookupFails
    /\ resolved = NotResolved

\* No translation pass: the translator's variables when the cache or the
\* JWKS client is what runs.
XdsIdle ==
    /\ DnsIdle
    /\ irListener = NilListener
    /\ xdsListener = NewXdsListener
    /\ mgr = NilMgr
    /\ jwtFilter = NilHttpFilter
    /\ xerr = "nil"

\* A translation pass on a listener without TLS: a listener built by
\* buildXdsTCPListener, no connection manager yet; there is no cache and no
\* JWKS client.
InitAuthn ==
    /\ irListener \in {NilListener}
                      \cup {Listener(FALSE, <<>>, rs) : rs \in SeqsUpTo(Routes, MaxRoutes)}
    /\ xdsListener = NewXdsListener
    /\ mgr = NilMgr
    /\ jwtFilter = NilHttpFilter
    /\ xerr = "nil"
    /\ DnsIdle
    /\ now = 0
    /\ newExpiration = 0
    /\ defaultExpiration = NoExpiration
    /\ items = <<>>
    /\ mu = [w |-> 0, r |-> {}]
    /\ onEvicted = "nil"
    /\ g = <<>>
    /\ pending = <<>>
    /\ spurious = FALSE
    /\ lastStore = <<>>
    /\ manager = "nil"
    /\ InfraIdle
    /\ client = "none"
    /\ refresh = 0
    /\ ttl = 0
    /\ sem = 0
    /\ j = <<>>

\* The chain of the listener is built, its connection manager is patched for
\* the listener of the pass or for a nil listener, and JwtFilter is called.
NextAuthn ==
    \/ AddXdsHTTPFilterChain
    \/ \E l \in {irListener, NilListener}, dns \in Resolvers, valid \in BOOLEAN :
           PatchHCMWithJwtAuthnFilter(l, dns, valid)
    \/ \E jwtRules \in RuleLists : JwtFilter(jwtRules)

SpecAuthn == InitAuthn /\ [][NextAuthn]_vars

\* Listeners with one route that declares providers, alone or after a route
\* without a JWT.
FailingListeners ==
    {Listener(FALSE, <<>>, <<Route("jwt", ps)>>) : ps \in SeqsUpTo(Providers, 2)}
    \cup {Listener(FALSE, <<>>, <<Route("noJWT", <<>>), Route("jwt", ps)>>) :
              ps \in SeqsUpTo(Providers, 2)}

\* The chain of such a listener is built and its connection manager is
\* patched, with any answer of the resolver and any verdict of ValidateAll.
InitFail ==
    /\ irListener \in FailingListeners
    /\ xdsListener = NewXdsListener
    /\ mgr = NilMgr
    /\ jwtFilter = NilHttpFilter
    /\ xerr = "nil"
    /\ DnsIdle
    /\ now = 0
    /\ newExpiration = 0
    /\ defaultExpiration = NoExpiration
    /\ items = <<>>
    /\ mu = [w |-> 0, r |-> {}]
    /\ onEvicted = "nil"
    /\ g = <<>>
    /\ pending = <<>>
    /\ spurious = FALSE
    /\ lastStore = <<>>
    /\ manager = "nil"
    /\ InfraIdle
    /\ client = "none"
    /\ refresh = 0
    /\ ttl = 0
    /\ sem = 0
    /\ j = <<>>

NextFail ==
    \/ AddXdsHTTPFilterChain
    \/ \E dns \in Resolvers, valid \in BOOLEAN :
           PatchHCMWithJwtAuthnFilter(irListener, dns, valid)

SpecFail == InitFail /\ [][NextFail]_vars

\* Listeners with no route, with one route that has no JWT, and with routes
\* that declare providers.
PatchListeners ==
    FailingListeners
    \cup {Listener(FALSE, <<>>, <<>>)}
    \cup {Listener(FALSE, <<>>, <<Route(k, <<>>)>>) :
              k \in {"nil", "noRequestAuthentication", "noJWT"}}
    \cup {Listener(FALSE, <<>>, <<Route("jwt", <<>>)>>)}

\* The chain of such a listener is built and its connection manager is
\* patched again and again.
InitPatch ==
    /\ irListener \in PatchListeners
    /\ xdsListener = NewXdsListener
    /\ mgr = NilMgr
    /\ jwtFilter = NilHttpFilter
    /\ xerr = "nil"
    /\ DnsIdle
    /\ now = 0
    /\ newExpiration = 0
    /\ defaultExpiration = NoExpiration
    /\ items = <<>>
    /\ mu = [w |-> 0, r |-> {}]
    /\ onEvicted = "nil"
    /\ g = <<>>
    /\ pending = <<>>
    /\ spurious = FALSE
    /\ lastStore = <<>>
    /\ manager = "nil"
    /\ InfraIdle
    /\ client = "none"
    /\ refresh = 0
    /\ ttl = 0
    /\ sem = 0
    /\ j = <<>>

SpecPatch == InitPatch /\ [][NextFail]_vars

\* The host names and server names of the listeners that share one xDS
\* listener.
ChainHostnames == {<<>>, <<"*">>, <<"a.com">>, <<"b.com">>}

HTTPListeners ==
    {NilListener}
    \cup {Listener(tls, hs, <<>>) : tls \in BOOLEAN, hs \in ChainHostnames}

TCPListeners ==
    {NilTCPListener, TCPListener(FALSE, <<>>)}
    \cup {TCPListener(TRUE, snis) : snis \in ChainHostnames}

\* The filter chains of one xDS listener, built by buildXdsTCPListener, are
\* assembled from HTTP and TCP listeners in any order.
InitChains ==
    /\ irListener = NilListener
    /\ xdsListener = NewXdsListener
    /\ mgr = NilMgr
    /\ jwtFilter = NilHttpFilter
    /\ xerr = "nil"
    /\ DnsIdle
    /\ now = 0
    /\ newExpiration = 0
    /\ defaultExpiration = NoExpiration
    /\ items = <<>>
    /\ mu = [w |-> 0, r |-> {}]
    /\ onEvicted = "nil"
    /\ g = <<>>
    /\ pending = <<>>
    /\ spurious = FALSE
    /\ lastStore = <<>>
    /\ manager = "nil"
    /\ InfraIdle
    /\ client = "none"
    /\ refresh = 0
    /\ ttl = 0
    /\ sem = 0
    /\ j = <<>>

NextChains ==
    \/ \E l \in HTTPListeners : AddXdsHTTPFilterChainFor(l)
    \/ \E l \in TCPListeners : AddXdsTCPFilterChain(l)

SpecChains == InitChains /\ [][NextChains]_vars

\* The addresses net.LookupIP finds for one host are bounded.
MaxRecords == 2

\* The hosts resolveHostname is called with: a name, and the literals of an
\* IPv4 address, of an IPv6 address and of an IPv4-mapped IPv6 address.
ResolveHosts == {"h1", "10.0.0.1", "::1", "::ffff:10.0.0.3"}

Lookups == {LookupFails} \cup {Lookup(ips) : ips \in SeqsUpTo(IPs, MaxRecords)}

\* resolveHostname(hostname) when net.LookupIP answers lk.
ResolveHostname(lk) ==
    /\ lookup' = lk
    /\ resolved' = resolveHostname(hostname, [h \in {hostname} |-> lk])
    /\ UNCHANGED <<hostname, irListener, xdsListener, mgr, jwtFilter, xerr>>
    /\ UNCHANGED <<cacheVars, jwksVars, infraVars>>

\* resolveHostname alone, on any of the hosts.
InitResolve ==
    /\ hostname \in ResolveHosts
    /\ lookup = LookupFails
    /\ resolved = NotResolved
    /\ irListener = NilListener
    /\ xdsListener = NewXdsListener
    /\ mgr = NilMgr
    /\ jwtFilter = NilHttpFilter
    /\ xerr = "nil"
    /\ now = 0
    /\ newExpiration = 0
    /\ defaultExpiration = NoExpiration
    /\ items = <<>>
    /\ mu = [w |-> 0, r |-> {}]
    /\ onEvicted = "nil"
    /\ g = <<>>
    /\ pending = <<>>
    /\ spurious = FALSE
    /\ lastStore = <<>>
    /\ manager = "nil"
    /\ InfraIdle
    /\ client = "none"
    /\ refresh = 0
    /\ ttl = 0
    /\ sem = 0
    /\ j = <<>>

NextResolve == \E lk \in Lookups : ResolveHostname(lk)

SpecResolve == InitResolve /\ [][NextResolve]_vars

\* ------------------------------------------------------------------ JWKS client

\* client.go:15-21, in clock ticks: the model's clock is scaled down, and a
\* second of time.Unix is TicksPerSecond ticks.
TicksPerSecond == 2
pubKeyExpiration == 4
cacheCleanupInternal == 8

\* The clock of the client runs from 0 to MaxClock.
MaxClock == 1

\* The goroutines GetKey can start, and all goroutines of the client.
Bgs == {3, 4}
JG == Procs \cup Bgs

\* The arguments newClient is called with.
Refreshes == {-1, 0, 1}
Ttls == {-2, 0, 2}

\* What a call of Source.GetJWKS gives for the key ID asked for: an error (a
\* failed or cancelled request), a key set without the key, or the key.
Fetched == {"err", "none", "jwkA", "jwkB"}

\* The same, with a Source that serves one version of the key.
FetchedOne == {"err", "none", "jwkA"}

\* A goroutine of the client that is executing nothing.
NoEntry == [jwk |-> "nil", refresh |-> 0]

JIdle(i) ==
    [pc |-> IF i \in Procs THEN "Idle" ELSE "Free", key |-> "", cached |-> NoEntry,
     jwk |-> "nil", err |-> "nil", refresh |-> 0, exp |-> 0, spawned |-> FALSE,
     stale |-> FALSE, found |-> FALSE]

\* time.Time.Unix and time.Unix (client.go:60, 87): whole seconds, and back.
UnixMutRoundUp(t) == (t + TicksPerSecond - 1) \div TicksPerSecond

Unix(t) == t \div TicksPerSecond
UnixTime(sec) == sec * TicksPerSecond

\* newCache (cache.go of package jwks, lines 10-15): whether it panics.
newCachePanics(t) == t < -1

\* newClient (client.go:36-49): "panic" or "ok".
newClientMutGT(r, t) ==
    IF r > t THEN "panic"
    ELSE IF r < 0 THEN "panic"
    ELSE IF newCachePanics(t) THEN "panic"
    ELSE "ok"

newClient(r, t) ==
    IF r >= t THEN "panic"
    ELSE IF r < 0 THEN "panic"
    ELSE IF newCachePanics(t) THEN "panic"
    ELSE "ok"

NewClient(r, t) ==
    /\ client = "none"
    /\ client' = newClient(r, t)
    /\ refresh' = r
    /\ ttl' = t
    /\ UNCHANGED <<sem, j>>
    /\ UNCHANGED <<cacheVars, xdsVars, infraVars>>

\* time.Time.After (client.go:60): t is after the instant u.
AfterMutGE(t, u) == t >= u

After(t, u) == t > u

\* semaphore.Weighted.TryAcquire(1) of a semaphore of weight 1.
TryAcquireMutAlways(cur) == TRUE

TryAcquire(cur) == cur + 1 <= 1

\* GetKey is called (client.go:51-55); a context without a logger ends it.
CallGetKey(p, k, logger) ==
    /\ client = "ok"
    /\ j[p].pc = "Idle"
    /\ j' = [j EXCEPT ![p] =
               IF logger THEN [@ EXCEPT !.pc = "GKLookup", !.key = k]
               ELSE [@ EXCEPT !.pc = "GKDone", !.key = k, !.err = "nologger"]]
    /\ UNCHANGED <<client, refresh, ttl, sem>>
    /\ UNCHANGED <<cacheVars, xdsVars, infraVars>>

\* c.cache.Get(keyId) (client.go:57-58, 69-70).
GKLookup(p) ==
    /\ j[p].pc = "GKLookup"
    /\ LET res == GetResult(items, j[p].key, now)
       IN  j' = [j EXCEPT ![p] =
                   IF res[1] THEN [@ EXCEPT !.pc = "GKCheck", !.cached = res[2],
                                            !.found = TRUE]
                   ELSE [@ EXCEPT !.pc = "Refresh"]]
    /\ UNCHANGED <<client, refresh, ttl, sem>>
    /\ UNCHANGED <<cacheVars, xdsVars, infraVars>>

\* The entry was found (client.go:59-68): past its refresh instant, and with
\* the semaphore acquired, a goroutine is started; the cached key is the result.
\* stale keeps what the comparison of line 60 gave.
GKCheck(p) ==
    /\ j[p].pc = "GKCheck"
    /\ IF After(now, UnixTime(j[p].cached.refresh)) /\ TryAcquire(sem)
       THEN \E b \in Bgs :
               /\ j[b].pc = "Free"
               /\ \A c \in Bgs : j[c].pc = "Free" => b <= c
               /\ sem' = sem + 1
               /\ j' = [j EXCEPT ![p] = [@ EXCEPT !.pc = "GKDone", !.spawned = TRUE,
                                                  !.stale = TRUE,
                                                  !.jwk = j[p].cached.jwk,
                                                  !.cached = NoEntry],
                                 ![b] = [@ EXCEPT !.pc = "Refresh", !.key = j[p].key]]
       ELSE /\ sem' = sem
            /\ j' = [j EXCEPT ![p] = [@ EXCEPT !.pc = "GKDone",
                                               !.stale = After(now, UnixTime(j[p].cached.refresh)),
                                               !.jwk = j[p].cached.jwk,
                                               !.cached = NoEntry]]
    /\ UNCHANGED <<client, refresh, ttl>>
    /\ UNCHANGED <<cacheVars, xdsVars, infraVars>>

\* refreshKey calls getKey, which calls c.source.GetJWKS (client.go:75, 93).
FetchStart(i) ==
    /\ j[i].pc = "Refresh"
    /\ j' = [j EXCEPT ![i] = [@ EXCEPT !.pc = "Fetching"]]
    /\ UNCHANGED <<client, refresh, ttl, sem>>
    /\ UNCHANGED <<cacheVars, xdsVars, infraVars>>

\* getKey (client.go:92-107) on what Source.GetJWKS gave for the key ID: the
\* error of the fetch, the error of a key set without the key, or the key.
getKeyMutNoCheck(r) ==
    IF r = "err" THEN [jwk |-> "nil", err |-> "err"]
    ELSE [jwk |-> IF r = "none" THEN "nil" ELSE r, err |-> "nil"]

getKeyMutNoErr(r) ==
    IF r = "none" THEN [jwk |-> "nil", err |-> "none"]
    ELSE [jwk |-> IF r = "err" THEN "nil" ELSE r, err |-> "nil"]

getKey(r) ==
    IF r = "err" THEN [jwk |-> "nil", err |-> "err"]
    ELSE IF r = "none" THEN [jwk |-> "nil", err |-> "none"]
    ELSE [jwk |-> r, err |-> "nil"]

\* GetJWKS returns, and getKey and refreshKey with it (client.go:75-78, 93-106).
\* On an error GetKey returns it (line 70), and the started goroutine logs it
\* (lines 63-65) and ends.
FetchReturn(i, r) ==
    /\ j[i].pc = "Fetching"
    /\ LET res == getKey(r)
       IN  j' = [j EXCEPT ![i] =
                   IF res.err # "nil"
                   THEN [@ EXCEPT !.pc = IF i \in Procs THEN "GKDone" ELSE "Release",
                                  !.err = res.err]
                   ELSE [@ EXCEPT !.pc = "ClientStore", !.jwk = res.jwk]]
    /\ UNCHANGED <<client, refresh, ttl, sem>>
    /\ UNCHANGED <<cacheVars, xdsVars, infraVars>>

\* client.store builds the entry (client.go:85-88).
ClientStore(i) ==
    /\ j[i].pc = "ClientStore"
    /\ j' = [j EXCEPT ![i] = [@ EXCEPT !.pc = "CacheStore",
                                       !.refresh = Unix(now + refresh)]]
    /\ UNCHANGED <<client, refresh, ttl, sem>>
    /\ UNCHANGED <<cacheVars, xdsVars, infraVars>>

\* c.cache.Store, up to its Lock (client.go:89, cache.go:64-73).
CacheStore(i) ==
    /\ j[i].pc = "CacheStore"
    /\ j' = [j EXCEPT ![i] =
               [@ EXCEPT !.pc = "CacheStoreLock",
                         !.exp = StoreExp(pubKeyExpiration, defaultExpiration, now)]]
    /\ UNCHANGED <<client, refresh, ttl, sem>>
    /\ UNCHANGED <<cacheVars, xdsVars, infraVars>>

\* Store's critical section (cache.go:74-79); refreshKey returns the key
\* (client.go:80-81).
CacheStoreLock(i) ==
    /\ j[i].pc = "CacheStoreLock"
    /\ items' = MapPut(items, j[i].key,
                       Item([jwk |-> j[i].jwk, refresh |-> j[i].refresh], j[i].exp))
    /\ j' = [j EXCEPT ![i] =
               IF i \in Procs
               THEN [@ EXCEPT !.pc = "GKDone", !.refresh = 0, !.exp = 0]
               ELSE [@ EXCEPT !.pc = "Release", !.jwk = "nil", !.refresh = 0, !.exp = 0]]
    /\ UNCHANGED <<client, refresh, ttl, sem>>
    /\ UNCHANGED <<now, newExpiration, defaultExpiration, mu, onEvicted, g,
                   pending, spurious, lastStore>>
    /\ UNCHANGED <<manager, xdsVars, infraVars>>

\* The started goroutine ends: the deferred c.sem.Release(1) (client.go:62).
BgReleaseMutKeep(b) ==
    /\ b \in Bgs
    /\ j[b].pc = "Release"
    /\ sem' = sem
    /\ j' = [j EXCEPT ![b] = JIdle(b)]
    /\ UNCHANGED <<client, refresh, ttl>>
    /\ UNCHANGED <<cacheVars, xdsVars, infraVars>>

BgRelease(b) ==
    /\ b \in Bgs
    /\ j[b].pc = "Release"
    /\ sem' = sem - 1
    /\ j' = [j EXCEPT ![b] = JIdle(b)]
    /\ UNCHANGED <<client, refresh, ttl>>
    /\ UNCHANGED <<cacheVars, xdsVars, infraVars>>

\* GetKey returns (client.go:68, 70).
GKReturn(p) ==
    /\ j[p].pc = "GKDone"
    /\ j' = [j EXCEPT ![p] = JIdle(p)]
    /\ UNCHANGED <<client, refresh, ttl, sem>>
    /\ UNCHANGED <<cacheVars, xdsVars, infraVars>>

\* The clock of the client.
JTick ==
    /\ now < MaxClock
    /\ now' = now + 1
    /\ UNCHANGED <<newExpiration, defaultExpiration, items, mu, onEvicted, g,
                   pending, spurious, lastStore>>
    /\ UNCHANGED <<manager, jwksVars, xdsVars, infraVars>>

\* Before newClient: no client, and the cache newCache will make
\* (cache.New(pubKeyExpiration, cacheCleanupInternal)); the cache's own
\* goroutines are left out, its methods being steps of the client's.
InitJwks ==
    /\ now = 0
    /\ newExpiration = pubKeyExpiration
    /\ defaultExpiration = New(pubKeyExpiration)
    /\ items = <<>>
    /\ mu = [w |-> 0, r |-> {}]
    /\ onEvicted = "nil"
    /\ g = <<>>
    /\ pending = <<>>
    /\ spurious = FALSE
    /\ lastStore = <<>>
    /\ manager = runManager(cacheCleanupInternal)
    /\ InfraIdle
    /\ client = "none"
    /\ refresh = 0
    /\ ttl = 0
    /\ sem = 0
    /\ j = [i \in JG |-> JIdle(i)]
    /\ XdsIdle

\* The calls of GetKey by the goroutines of ps on the keys of ks, with a
\* Source that answers from fs, and the goroutines GetKey starts.
ClientStepOf(ps, ks, fs) ==
    \/ \E p \in ps, k \in ks, logger \in BOOLEAN : CallGetKey(p, k, logger)
    \/ \E p \in ps : GKLookup(p)
    \/ \E p \in ps : GKCheck(p)
    \/ \E i \in ps \cup Bgs : FetchStart(i)
    \/ \E i \in ps \cup Bgs, r \in fs : FetchReturn(i, r)
    \/ \E i \in ps \cup Bgs : ClientStore(i)
    \/ \E i \in ps \cup Bgs : CacheStore(i)
    \/ \E i \in ps \cup Bgs : CacheStoreLock(i)
    \/ \E b \in Bgs : BgRelease(b)
    \/ \E p \in ps : GKReturn(p)

\* The same, with every goroutine of Procs calling.
ClientStep(ks, fs) == ClientStepOf(Procs, ks, fs)

NextJwks ==
    \/ \E r \in Refreshes, t \in Ttls : NewClient(r, t)
    \/ ClientStep(Keys, FetchedOne)
    \/ JTick

SpecJwks == InitJwks /\ [][NextJwks]_vars

\* Clients made with a refresh interval and a ttl of the order of the
\* lifetime of a cached key (pubKeyExpiration) and beyond.
LongRefreshes == {1, pubKeyExpiration + 1}
LongTtls == {pubKeyExpiration + 2}

NextDeadline ==
    \/ \E r \in LongRefreshes, t \in LongTtls : NewClient(r, t)
    \/ ClientStep(Keys, FetchedOne)
    \/ JTick

SpecDeadline == InitJwks /\ [][NextDeadline]_vars

\* One key ID, and a Source whose key set changes from one fetch to the next.
OneKey == {"k1"}

NextRefresh ==
    \/ \E r \in Refreshes, t \in Ttls : NewClient(r, t)
    \/ ClientStep(OneKey, Fetched)
    \/ JTick

SpecRefresh == InitJwks /\ [][NextRefresh]_vars

\* The clock of a client that outlives its entries: it runs past the
\* expiry of an entry stored at MaxClock.
JTickLong ==
    /\ now <= pubKeyExpiration + MaxClock
    /\ now' = now + 1
    /\ UNCHANGED <<newExpiration, defaultExpiration, items, mu, onEvicted, g,
                   pending, spurious, lastStore>>
    /\ UNCHANGED <<manager, jwksVars, xdsVars, infraVars>>

\* A sweep of the client's cache, which has no callback: DeleteExpired
\* (cache.go:124-141) removes the expired entries under the lock.
JSweep ==
    /\ client = "ok"
    /\ manager = "running"
    /\ \E k \in DOMAIN items : Expired(items[k], now)
    /\ items' = [k \in {x \in DOMAIN items : ~Expired(items[x], now)} |-> items[k]]
    /\ UNCHANGED <<now, newExpiration, defaultExpiration, mu, onEvicted, g,
                   pending, spurious, lastStore>>
    /\ UNCHANGED <<manager, jwksVars, xdsVars, infraVars>>

\* One caller, one key ID, a Source with one version of the key, the sweep of
\* the cache and a clock that runs past the expiry of the entries.
NextExpiry ==
    \/ \E r \in Refreshes, t \in Ttls : NewClient(r, t)
    \/ ClientStepOf({1}, OneKey, FetchedOne)
    \/ JSweep
    \/ JTickLong

SpecExpiry == InitJwks /\ [][NextExpiry]_vars

\* What a goroutine started by GetKey does once Source.GetJWKS has returned:
\* the store, if any, and the deferred Release.
AfterFetch(b) ==
    \/ ClientStore(b)
    \/ CacheStore(b)
    \/ CacheStoreLock(b)
    \/ BgRelease(b)

\* The same client, with a scheduler that lets every started goroutine run
\* when it can; a Source that never answers stays possible.
SpecRelease ==
    /\ InitJwks
    /\ [][NextRefresh]_vars
    /\ \A b \in Bgs : WF_vars(AfterFetch(b))

\* ------------------------------------------------------------------ specification

\* The state New returns (cache.go:42-59): an empty map, no callback.  There
\* is no JWKS client.
Init ==
    /\ now = 0
    /\ newExpiration \in Expirations
    /\ defaultExpiration = New(newExpiration)
    /\ items = <<>>
    /\ mu = [w |-> 0, r |-> {}]
    /\ onEvicted = "nil"
    /\ g = [p \in Procs |-> IdleG]
    /\ pending = [kv \in Keys \X Vals |-> 0]
    /\ spurious = FALSE
    /\ lastStore = <<>>
    /\ manager = "nil"
    /\ InfraIdle
    /\ client = "none"
    /\ refresh = 0
    /\ ttl = 0
    /\ sem = 0
    /\ j = <<>>
    /\ XdsIdle

\* Store and Get, called from the top level or from inside a callback.
StoreStep(p) ==
    \/ \E k \in Keys, d \in Durations : CallStore(p, k, ValOf(p), d)
    \/ StoreLock(p)

GetStep(p) ==
    \/ \E k \in Keys : CallGet(p, k)
    \/ GetRLock(p)
    \/ GetRUnlock(p)

AddStep(p) ==
    \/ \E k \in Keys, d \in Durations : CallAdd(p, k, ValOf(p), d)
    \/ AddLock(p)

\* A sweep of a cache in which no callback was registered.
SweepStep(p) ==
    \/ CallDeleteExpired(p)
    \/ DELock(p)
    \/ \E k \in Keys : DEScan(p, k)
    \/ DEUnlock(p)
    \/ DEDone(p)

RegisterStep(p) ==
    \/ \E f \in Funcs : CallOnEvicted(p, f)
    \/ OnEvictedLock(p)

\* The second loop of a sweep, with a callback that does nothing.
InvokeStep(p) ==
    \/ DEInvoke(p)
    \/ CallbackReturn(p)

\* Goroutines that store, read and sweep; the clock.
NextTTL ==
    \/ \E p \in Procs : StoreStep(p)
    \/ \E p \in Procs : GetStep(p)
    \/ \E p \in Procs : SweepStep(p)
    \/ Tick

SpecTTL == Init /\ [][NextTTL]_vars

\* Goroutines that store, read and register callbacks; the clock.
NextGet ==
    \/ \E p \in Procs : StoreStep(p)
    \/ \E p \in Procs : GetStep(p)
    \/ \E p \in Procs : RegisterStep(p)
    \/ Tick

SpecGet == Init /\ [][NextGet]_vars

\* Goroutines that add, store and read; the clock.
NextAdd ==
    \/ \E p \in Procs : AddStep(p)
    \/ \E p \in Procs : StoreStep(p)
    \/ \E p \in Procs : GetStep(p)
    \/ Tick

SpecAdd == Init /\ [][NextAdd]_vars

\* The steps of a goroutine inside a method.  A goroutine that can run is
\* scheduled, and sync.RWMutex does not starve a goroutine whose lock
\* becomes free again and again: strong fairness of these steps.
Proceed(p) == AddLock(p) \/ StoreLock(p) \/ GetRLock(p) \/ GetRUnlock(p)

SpecAddLive == Init /\ [][NextAdd]_vars /\ \A p \in Procs : SF_vars(Proceed(p))

\* The state New returns for either kind of cleanup interval (cache.go:42-59).
InitManager ==
    /\ now = 0
    /\ newExpiration \in Expirations
    /\ defaultExpiration = New(newExpiration)
    /\ items = <<>>
    /\ mu = [w |-> 0, r |-> {}]
    /\ onEvicted = "nil"
    /\ g = [p \in Procs |-> IdleG]
    /\ pending = [kv \in Keys \X Vals |-> 0]
    /\ spurious = FALSE
    /\ lastStore = <<>>
    /\ \E ci \in CleanupIntervals : manager = runManager(ci)
    /\ InfraIdle
    /\ client = "none"
    /\ refresh = 0
    /\ ttl = 0
    /\ sem = 0
    /\ j = [i \in JG |-> JIdle(i)]
    /\ XdsIdle

\* The loop of manager.Run (cache.go:183-193) in its goroutine.
RunStep ==
    \/ RunTick
    \/ DELock(ManagerG)
    \/ \E k \in Keys : DEScan(ManagerG, k)
    \/ DEUnlock(ManagerG)
    \/ DEDone(ManagerG)
    \/ StopManager

\* Goroutine 1 stores, adds, reads and sweeps; the manager's loop, where New
\* started one; the clock.
NextManager ==
    \/ StoreStep(1)
    \/ AddStep(1)
    \/ GetStep(1)
    \/ SweepStep(1)
    \/ RunStep
    \/ Tick

SpecManager == InitManager /\ [][NextManager]_vars

\* The ticker keeps firing, and a goroutine inside a method or inside the
\* loop is scheduled whenever it can run; sync.RWMutex does not starve it.
InMethod(p) ==
    \/ Proceed(p)
    \/ DELock(p)
    \/ \E k \in Keys : DEScan(p, k)
    \/ DEUnlock(p)
    \/ DEDone(p)

SpecManagerLive ==
    /\ SpecManager
    /\ WF_vars(RunTick)
    /\ \A p \in Procs : SF_vars(InMethod(p))

\* The infra manager in a namespace that others use too; there is no cache
\* and no translation pass.
InitInfra ==
    /\ InfraIdle
    /\ now = 0
    /\ newExpiration = 0
    /\ defaultExpiration = NoExpiration
    /\ items = <<>>
    /\ mu = [w |-> 0, r |-> {}]
    /\ onEvicted = "nil"
    /\ g = <<>>
    /\ pending = <<>>
    /\ spurious = FALSE
    /\ lastStore = <<>>
    /\ manager = "nil"
    /\ client = "none"
    /\ refresh = 0
    /\ ttl = 0
    /\ sem = 0
    /\ j = <<>>
    /\ XdsIdle

NextInfra ==
    \/ \E infra \in Infras : CreateOrUpdateServices(infra)
    \/ \E nilInfra \in BOOLEAN : DeleteInfra(nilInfra)
    \/ DeleteNext
    \/ \E name \in OtherNames, spec \in ServicePorts : OtherCreate(name, spec)
    \/ \E name \in DOMAIN services : OtherDelete(name)

SpecInfra == InitInfra /\ [][NextInfra]_vars

\* Goroutines that store, sweep and register callbacks; the clock.
NextSweep ==
    \/ \E p \in Procs : StoreStep(p)
    \/ \E p \in Procs : SweepStep(p)
    \/ \E p \in Procs : RegisterStep(p)
    \/ \E p \in Procs : InvokeStep(p)
    \/ Tick

SpecSweep == Init /\ [][NextSweep]_vars

\* A callback that calls back into the cache.
ReenterStep(p) ==
    \/ \E k \in Keys, d \in Durations : CallbackCalls(p, "StoreLock", k, d, "nil")
    \/ \E k \in Keys : CallbackCalls(p, "GetRLock", k, 0, "nil")
    \/ \E f \in Funcs : CallbackCalls(p, "OnEvictedLock", "", 0, f)
    \/ StoreLock(p)
    \/ GetRLock(p)
    \/ GetRUnlock(p)
    \/ OnEvictedLock(p)

\* Goroutine 1 stores and registers callbacks; goroutine 2 sweeps, and its
\* callbacks call back into the cache; the clock.
NextReenter ==
    \/ StoreStep(1)
    \/ RegisterStep(1)
    \/ SweepStep(2)
    \/ InvokeStep(2)
    \/ ReenterStep(2)
    \/ Tick

SpecReenter == Init /\ [][NextReenter]_vars

\* Every step of goroutine p.
Step(p) ==
    \/ StoreStep(p) \/ GetStep(p) \/ AddStep(p)
    \/ SweepStep(p) \/ RegisterStep(p) \/ InvokeStep(p) \/ ReenterStep(p)

Next ==
    \/ \E p \in Procs : Step(p)
    \/ Tick

Spec == Init /\ [][Next]_vars

\* ------------------------------------------------------------------ claims: the cache

\* Goroutine p is inside Add, past Add's Lock.
InAdd(p) == g[p].ret = "Add" /\ g[p].pc # "AddLock"

\* C1: Add returns: a call of Add that holds the lock is never stuck, so with a
\* live entry it returns the error and leaves the entry as it is, and with no
\* live entry it stores the value and returns nil.
C1_AddReturns ==
    \A p \in Procs : InAdd(p) => ENABLED Step(p)

\* C2: of two concurrent calls of Add for the same key one can always go on
\* (and so one of them returns nil and the other the error).
C2_OneAddWins ==
    \A p, q \in Procs :
        (p # q /\ g[p].ret = "Add" /\ g[q].ret = "Add" /\ g[p].key = g[q].key)
            => (ENABLED Step(p) \/ ENABLED Step(q))

\* Goroutine p's Get reads the map and the clock in this step.
GetReads(p) == g[p].pc = "GetRLock" /\ g'[p].pc = "GetRUnlock"

\* The last Store of key k was of an entry that expires.
Expiring(k) == k \in DOMAIN lastStore /\ lastStore[k].due > 0

\* The last Store of key k was of an entry that never expires.
Lasting(k) == k \in DOMAIN lastStore /\ lastStore[k].due = 0

\* C3, as claimed: for an entry stored at t with an effective duration d > 0,
\* a Get at a time before t + d finds it and a Get at t + d or later does not.
C3_ExpiresAtDue ==
    [][\A p \in Procs :
          (GetReads(p) /\ Expiring(g[p].key))
              => (g'[p].found <=> now < lastStore[g[p].key].due)]_vars

\* C3, amended: for an entry stored at t with an effective duration d > 0, a
\* Get at a time up to and including t + d finds it and a Get after t + d does
\* not.
C3_ExpiresAfterDue ==
    [][\A p \in Procs :
          (GetReads(p) /\ Expiring(g[p].key))
              => (g'[p].found <=> now <= lastStore[g[p].key].due)]_vars

\* A Get found an entry at the very instant t + d.
C3_Witness ==
    \E p \in Procs :
        /\ g[p].pc = "GetRUnlock"
        /\ Expiring(g[p].key)
        /\ now = lastStore[g[p].key].due
        /\ g[p].found

\* C4: an entry stored with a negative duration, or with duration 0 in a cache
\* made with expiration 0, stays in the map with its value through every sweep
\* and every Get finds it, at every later time, until the key is stored again.
C4_NeverExpires ==
    [][\A k \in Keys :
          (k \in DOMAIN lastStore' /\ lastStore'[k].due = 0)
              => /\ k \in DOMAIN items'
                 /\ items'[k].Object = lastStore'[k].v
                 /\ \A p \in Procs :
                       (GetReads(p) /\ g[p].key = k /\ Lasting(k))
                           => (g'[p].found /\ g'[p].obj = lastStore[k].v)]_vars

\* At the end of the clock, after a sweep's scan, a Get found such an entry.
C4_Witness ==
    \E p, q \in Procs :
        /\ now = MaxTime
        /\ g[p].pc = "GetRUnlock"
        /\ Lasting(g[p].key)
        /\ g[p].found
        /\ g[q].pc = "DECallbacks"

\* C7: a Get that reads after a Store of its key has returned, and not after
\* the entry's expiry, returns the value of the last such Store, whatever
\* sweeps and Stores of other keys run beside it.
C7_ReadYourWrites ==
    [][\A p \in Procs :
          (/\ GetReads(p)
           /\ g[p].key \in DOMAIN lastStore
           /\ (Lasting(g[p].key) \/ now <= lastStore[g[p].key].due))
              => (g'[p].found /\ g'[p].obj = lastStore[g[p].key].v)]_vars

\* A Get returned the value another goroutine stored, while that goroutine is
\* storing a different key.
C7_Witness ==
    \E p, q \in Procs :
        /\ p # q
        /\ g[p].pc = "GetRUnlock"
        /\ g[p].found
        /\ g[p].obj = ValOf(q)
        /\ g[q].pc = "StoreLock"
        /\ g[q].key # g[p].key

\* How often <<k, v>> is in the evictedItems of goroutines.
RECURSIVE Count(_, _)
Count(seq, kv) ==
    IF seq = <<>> THEN 0
    ELSE (IF Head(seq) = kv THEN 1 ELSE 0) + Count(Tail(seq), kv)

RECURSIVE Queued(_, _)
Queued(ps, kv) ==
    IF ps = {} THEN 0
    ELSE LET p == CHOOSE x \in ps : TRUE
         IN  Count(g[p].evictedItems, kv) + Queued(ps \ {p}, kv)

\* C5: the callback is invoked only for entries a sweep removed, with the key
\* and the value removed, once each; the entries removed and not yet reported
\* are those the sweeps still hold in evictedItems, so that a sweep that has
\* returned has reported every entry it removed.
C5_ExactlyOnce ==
    /\ ~spurious
    /\ \A kv \in Keys \X Vals : pending[kv] = Queued(Procs, kv)

\* Two sweeps are each inside a callback.
C5_Witness ==
    \E p, q \in Procs :
        /\ p # q
        /\ g[p].pc = "InCallback"
        /\ g[q].pc = "InCallback"

\* C6: while a callback runs, and in whatever it calls, the sweep's goroutine
\* holds the lock neither for writing nor, in the callback itself, for reading.
C6_CallbackOutsideLock ==
    \A p \in Procs :
        (g[p].pc = "InCallback" \/ g[p].ret = "InCallback")
            => /\ mu.w = 0
               /\ (g[p].pc = "InCallback" => p \notin mu.r)

\* A callback's call of Get has taken the read lock.
C6_Witness ==
    \E p \in Procs : g[p].ret = "InCallback" /\ g[p].pc = "GetRUnlock"

\* ------------------------------------------------------------------ claims: the JWKS client

\* The goroutines inside Source.GetJWKS, and the started goroutines.
InGetJWKS == {i \in JG : j[i].pc = "Fetching"}
Started == {b \in Bgs : j[b].pc # "Free"}

\* C8: at most one call of Source.GetJWKS is in progress.
C8_OneFetchAtATime ==
    Cardinality(InGetJWKS) <= 1

\* Two calls of GetKey for the same key, both still running, have each
\* started a refresh.
BothStarted(p, q) ==
    /\ p # q
    /\ j[p].pc = "GKDone" /\ j[q].pc = "GKDone"
    /\ j[p].spawned /\ j[q].spawned
    /\ j[p].key = j[q].key

\* C9, as claimed: two concurrent calls of GetKey for the same stale key do
\* not both start a refresh (one call of GetJWKS, not two).
C9_OneFetchForTwoCalls ==
    \A p, q \in Procs : ~BothStarted(p, q)

\* C9, amended: when two concurrent calls of GetKey for the same stale key
\* both start a refresh, the refreshes do not overlap: the first has ended
\* and released the semaphore before the second is started.
C9_RefreshesDoNotOverlap ==
    \A p, q \in Procs : BothStarted(p, q) => Cardinality(Started) <= 1

C9_Witness ==
    \E p, q \in Procs : BothStarted(p, q) /\ Cardinality(Started) = 1

C11_SoftBeforeHard ==
    client = "ok" =>
        \A k \in DOMAIN items :
            UnixTime(items[k].Object.refresh) < items[k].Expiration


\* Goroutine p takes the step of GetKey that follows a cache hit.
HitStep(p) == j[p].pc = "GKCheck" /\ j'[p] # j[p]

\* The soft-refresh deadline of the entry GetKey found, as an instant.
SoftRefreshAt(p) == UnixTime(j[p].cached.refresh)

\* C12: a hit at or before the entry's soft-refresh deadline returns the
\* cached key with no error, and neither fetches, nor touches the semaphore,
\* nor starts a goroutine.
C12_FreshHit ==
    [][\A p \in Procs :
          (HitStep(p) /\ now <= SoftRefreshAt(p))
          => /\ j'[p].pc = "GKDone"
             /\ j'[p].jwk = j[p].cached.jwk
             /\ j'[p].err = "nil"
             /\ ~j'[p].spawned
             /\ sem' = sem
             /\ \A b \in Bgs : j'[b] = j[b]]_vars

\* GetKey is returning a key it found fresh, at the very instant of the
\* deadline of the entry, and no refresh is running.
C12_Witness ==
    \E p \in Procs :
        /\ j[p].pc = "GKDone" /\ j[p].found /\ ~j[p].stale
        /\ j[p].jwk = "jwkA" /\ j[p].err = "nil"
        /\ j[p].key \in DOMAIN items
        /\ now = UnixTime(items[j[p].key].Object.refresh)
        /\ sem = 0

\* C13: a hit after the soft-refresh deadline is never blocked, whatever the
\* fetches in progress do: its step can always be taken, it returns the cached
\* key with no error, and it starts a goroutine exactly when the semaphore
\* was free, which it then holds; with the permit held nothing is started.
C13_StaleHit ==
    /\ [](\A p \in Procs : j[p].pc = "GKCheck" => ENABLED GKCheck(p))
    /\ [][\A p \in Procs :
             (HitStep(p) /\ now > SoftRefreshAt(p))
             => /\ j'[p].pc = "GKDone"
                /\ j'[p].jwk = j[p].cached.jwk
                /\ j'[p].err = "nil"
                /\ j'[p].spawned <=> sem = 0
                /\ sem # 0 => (sem' = sem /\ \A b \in Bgs : j'[b] = j[b])
                /\ sem = 0 => /\ sem' = 1
                              /\ \E b \in Bgs : /\ j[b].pc = "Free"
                                                 /\ j'[b].pc = "Refresh"
                                                 /\ j'[b].key = j[p].key]_vars

\* GetKey is returning a stale key without having started anything, while a
\* background refresh that holds the permit is inside Source.GetJWKS.
C13_Witness ==
    \E p \in Procs, b \in Bgs :
        /\ j[p].pc = "GKDone" /\ j[p].found /\ j[p].stale /\ ~j[p].spawned
        /\ j[p].jwk = "jwkA" /\ j[p].err = "nil"
        /\ j[b].pc = "Fetching" /\ sem = 1

\* Goroutine i takes a step from the position pc.
StepFrom(i, pc) == j[i].pc = pc /\ j'[i] # j[i]

\* C14: a GetKey that does not find the key refreshes synchronously.  When
\* the fetch fails or the key set lacks the key, GetKey returns that error and
\* no key, and no step of the call changed the cache; when the key is
\* fetched, it is stored under the key ID and returned with no error.
C14_MissRefreshes ==
    [][\A p \in Procs :
          /\ (StepFrom(p, "GKLookup") /\ ~GetResult(items, j[p].key, now)[1])
             => (j'[p].pc = "Refresh" /\ ~j'[p].found /\ items' = items)
          /\ StepFrom(p, "Refresh") => (j'[p].pc = "Fetching" /\ items' = items)
          /\ StepFrom(p, "Fetching")
             => /\ items' = items
                /\ \/ /\ j'[p].pc = "GKDone"
                      /\ j'[p].err \in {"err", "none"}
                      /\ j'[p].jwk = "nil"
                   \/ /\ j'[p].pc = "ClientStore"
                      /\ j'[p].err = "nil"
                      /\ j'[p].jwk \in {"jwkA", "jwkB"}
          /\ StepFrom(p, "CacheStoreLock")
             => /\ j'[p].pc = "GKDone"
                /\ j'[p].err = "nil"
                /\ j'[p].jwk = j[p].jwk
                /\ j[p].key \in DOMAIN items'
                /\ items'[j[p].key].Object.jwk = j[p].jwk]_vars

\* GetKey is returning the error of a key set that lacks the key, with no
\* key, and the cache has no entry for the key ID.
C14_Witness ==
    \E p \in Procs :
        /\ j[p].pc = "GKDone" /\ ~j[p].found
        /\ j[p].err = "none" /\ j[p].jwk = "nil"
        /\ j[p].key \notin DOMAIN items

\* C15: a background refresh that fails leaves the cache and every GetKey
\* call as they are; a GetKey that found the key returns a key and no error;
\* the cache changes only when a refresh stores, and a lookup of an entry
\* not yet expired gives the entry of the cache, whose key the hit returns.
C15_FailedRefreshIsSilent ==
    /\ [](\A p \in Procs : (j[p].pc = "GKDone" /\ j[p].found)
                               => (j[p].err = "nil" /\ j[p].jwk # "nil"))
    /\ [][/\ \A b \in Bgs :
               (StepFrom(b, "Fetching") /\ j'[b].err # "nil")
               => /\ j'[b].pc = "Release"
                  /\ items' = items
                  /\ \A p \in Procs : j'[p] = j[p]
          /\ items' # items => \E i \in JG : StepFrom(i, "CacheStoreLock")
          /\ \A p \in Procs :
               /\ (StepFrom(p, "GKLookup") /\ j[p].key \in DOMAIN items
                                            /\ ~Expired(items[j[p].key], now))
                  => (j'[p].pc = "GKCheck" /\ j'[p].cached = items[j[p].key].Object)
               /\ HitStep(p) => (j'[p].jwk = j[p].cached.jwk /\ j'[p].err = "nil")]_vars

\* A background refresh has failed and is about to release the permit; the
\* call that started it returns the stale key, which is still the one in the
\* cache, and a later call has looked it up.
C15_Witness ==
    \E p, q \in Procs, b \in Bgs :
        /\ p # q
        /\ j[b].pc = "Release" /\ j[b].err # "nil"
        /\ j[p].pc = "GKDone" /\ j[p].spawned /\ j[p].err = "nil"
        /\ j[p].key \in DOMAIN items
        /\ j[p].jwk = items[j[p].key].Object.jwk
        /\ j[q].pc = "GKCheck" /\ j[q].cached.jwk = j[p].jwk

\* The fetch of the goroutine b started by GetKey has returned.
FetchReturned(b) ==
    j[b].pc \in {"ClientStore", "CacheStore", "CacheStoreLock", "Release"}

\* C16: the permit is held exactly by the started goroutines that have not
\* ended, and once the fetch of such a goroutine has returned, with a key or
\* with an error, the permit becomes free again.
C16_PermitReleased ==
    /\ [](sem = Cardinality(Started))
    /\ \A b \in Bgs : FetchReturned(b) ~> (sem = 0 /\ j[b].pc = "Free")

\* The fetch of a background refresh has failed, and the permit is still held.
C16_Witness ==
    \E b \in Bgs : j[b].pc = "Release" /\ j[b].err # "nil" /\ sem = 1

\* ------------------------------------------------------------------ claims: the translator

\* The connection manager holds a JWT authentication filter, and the
\* configuration of that filter.
HasJwtFilter(m) ==
    ~m.nil /\ \E i \in 1..Len(m.HttpFilters) : m.HttpFilters[i].Name = jwtAuthenFilter

JwtConfigOf(m) ==
    LET i == CHOOSE k \in 1..Len(m.HttpFilters) : m.HttpFilters[k].Name = jwtAuthenFilter
    IN  m.HttpFilters[i].TypedConfig

\* What identifies a provider when its name is left out.
Content(issuer, audiences, uri) == <<issuer, audiences, uri>>
ContentOf(p) == Content(p.Issuer, p.Audiences, p.RemoteJWKS.URI)

\* The listener has two routes, each with one provider, and the two
\* providers differ in the name only.
TwoRoutesOneProvider(l) ==
    /\ ~l.nil
    /\ Len(l.Routes) = 2
    /\ \A i \in 1..2 : l.Routes[i].kind = "jwt" /\ Len(l.Routes[i].Providers) = 1
    /\ ContentOf(l.Routes[1].Providers[1]) = ContentOf(l.Routes[2].Providers[1])
    /\ l.Routes[1].Providers[1].Name # l.Routes[2].Providers[1].Name

\* C17: for two routes whose providers differ in the name only, the filter
\* configuration built for the listener has one provider, under the name
\* met first, with the content declared, and one requirement, which names it.
C17_DedupByContent ==
    (TwoRoutesOneProvider(irListener) /\ HasJwtFilter(mgr))
    => LET cfg == JwtConfigOf(mgr)
           first == irListener.Routes[1].Providers[1]
       IN  /\ DOMAIN cfg.Providers = {first.Name}
           /\ cfg.Providers[first.Name].Issuer = first.Issuer
           /\ cfg.Providers[first.Name].Audiences = first.Audiences
           /\ cfg.Providers[first.Name].Uri = first.RemoteJWKS.URI
           /\ cfg.Requires = ProviderName(first.Name)

\* The filter was built for such a listener.
C17_Witness ==
    TwoRoutesOneProvider(irListener) /\ HasJwtFilter(mgr)

\* The requirement for the provider names P1..Pn: P1 alone for n = 1; for
\* n >= 2 the any-of of P1, .., Pn and of the all-of of the any-of's of
\* (Pi, allow-missing).
NestedRequirement(names) ==
    IF Len(names) = 1 THEN ProviderName(names[1])
    ELSE RequiresAny(
             Append([i \in 1..Len(names) |-> ProviderName(names[i])],
                    RequiresAll([i \in 1..Len(names) |->
                                    RequiresAny(<<ProviderName(names[i]), AllowMissing>>)])))

\* C18: the requirement of the rule has the nested shape, in the filter
\* buildJwtAuthn builds for the deduplicated providers of the listener and in
\* the filter JwtFilter builds for its rules.
C18_RuleShape ==
    /\ HasJwtFilter(mgr)
       => LET irProviders == uniqueJwtAuthnProviders(irListener)
          IN  JwtConfigOf(mgr).Requires =
                  NestedRequirement([i \in 1..Len(irProviders) |-> irProviders[i].Name])
    /\ ~jwtFilter.nil
       => LET n == Cardinality(DOMAIN jwtFilter.TypedConfig.Providers)
          IN  jwtFilter.TypedConfig.Requires =
                  NestedRequirement([i \in 1..n |-> OriginName(i - 1)])

\* Whether a request satisfies a requirement: valid is the set of names of
\* the providers that validate its token, missing says that it has none.
RECURSIVE Satisfies(_, _, _)
Satisfies(req, valid, missing) ==
    CASE req.t = "provider_name" -> req.name \in valid
      [] req.t = "allow_missing" -> missing
      [] req.t = "requires_any" ->
             \E i \in 1..Len(req.reqs) : Satisfies(req.reqs[i], valid, missing)
      [] req.t = "requires_all" ->
             \A i \in 1..Len(req.reqs) : Satisfies(req.reqs[i], valid, missing)

\* The contents of the providers declared on the routes of the listener.
ContentsOf(l) ==
    {ContentOf(l.Routes[r].Providers[i]) :
        <<r, i>> \in {ri \in (1..Len(l.Routes)) \X (1..2) :
                          ri[2] <= Len(l.Routes[ri[1]].Providers)}}

\* C19: with the filter built for the listener, for every route of the
\* listener and every choice of the providers that validate the token of a
\* request, the request satisfies the requirement exactly when a provider
\* of its route validates the token, and always when its route has no
\* request authentication.
C19_PerRoutePolicy ==
    HasJwtFilter(mgr)
    => LET cfg == JwtConfigOf(mgr)
       IN  \A r \in 1..Len(irListener.Routes), V \in SUBSET ContentsOf(irListener) :
               LET route == irListener.Routes[r]
                   valid == {n \in DOMAIN cfg.Providers :
                                Content(cfg.Providers[n].Issuer,
                                        cfg.Providers[n].Audiences,
                                        cfg.Providers[n].Uri) \in V}
               IN  route.kind # "nil"
                   => (Satisfies(cfg.Requires, valid, FALSE)
                       <=> (routeContainsJwtAuthn(route)
                            => \E i \in 1..Len(route.Providers) :
                                   ContentOf(route.Providers[i]) \in V))

\* C20: in the connection manager addXdsHTTPFilterChain made, whatever was
\* patched into it, and in the copy the filter chain holds, the router is the
\* last of the HTTP filters and a JWT authentication filter comes before it.
RouterLast(m) ==
    /\ Len(m.HttpFilters) >= 1
    /\ m.HttpFilters[Len(m.HttpFilters)].Name = RouterName
    /\ \A i \in 1..Len(m.HttpFilters) :
           m.HttpFilters[i].Name = jwtAuthenFilter => i < Len(m.HttpFilters)

C20_RouterLast ==
    /\ ~mgr.nil => RouterLast(mgr)
    /\ ~xdsListener.DefaultFilterChain.nil
       => RouterLast(xdsListener.DefaultFilterChain.Filters[1].TypedConfig)
    /\ \A c \in 1..Len(xdsListener.FilterChains) :
           RouterLast(xdsListener.FilterChains[c].Filters[1].TypedConfig)

\* The connection manager has been patched: the JWT authentication filter,
\* then the router.
C20_Witness ==
    /\ HasJwtFilter(mgr)
    /\ Len(mgr.HttpFilters) = 2
    /\ mgr.HttpFilters[1].Name = jwtAuthenFilter
    /\ mgr.HttpFilters[2].Name = RouterName

\* ------------------------------------------------------------------ filter chains

\* A listener whose filter chain gets no match on server names: one without
\* TLS, or one with TLS whose host names are empty or start with "*".
NonSNIMatched(l) == ~l.TLS \/ ~HasServerNamesMatch(l.Hostnames)

HasDefaultFilterChain == ~xdsListener.DefaultFilterChain.nil

\* C21: addXdsHTTPFilterChain for a listener that is not SNI-matched, on an
\* xDS listener that has a default filter chain, returns an error and leaves
\* the xDS listener as it was: DefaultFilterChain, FilterChains and
\* ListenerFilters.
C21_SecondDefaultRejected ==
    [][\A l \in HTTPListeners \ {NilListener} :
           (AddXdsHTTPFilterChainFor(l) /\ NonSNIMatched(l) /\ HasDefaultFilterChain)
               => (xerr' # "nil" /\ xdsListener' = xdsListener)]_vars


\* The members of FilterChains that have, or have not, a match on server
\* names.
SNIMatched == {i \in 1..Len(xdsListener.FilterChains) :
                  xdsListener.FilterChains[i].ServerNames # <<>>}

Unmatched == {i \in 1..Len(xdsListener.FilterChains) :
                 xdsListener.FilterChains[i].ServerNames = <<>>}

\* C22: after any calls of addXdsHTTPFilterChain and addXdsTCPFilterChain the
\* xDS listener has at most one filter chain without a match on server names,
\* DefaultFilterChain and the members of FilterChains counted together.
C22_OneDefaultChain ==
    Cardinality(Unmatched) + (IF HasDefaultFilterChain THEN 1 ELSE 0) <= 1

TlsInspectors(listenerFilters) ==
    {i \in 1..Len(listenerFilters) : listenerFilters[i] = TlsInspectorName}

\* C23: ListenerFilters has exactly one TLS inspector when a filter chain
\* with a match on server names was added and none otherwise, and
\* addXdsTLSInspectorFilter applied twice gives what it gives applied once.
C23_OneTlsInspector ==
    LET once == addXdsTLSInspectorFilter(xdsListener.ListenerFilters)
    IN  /\ Cardinality(TlsInspectors(xdsListener.ListenerFilters))
               = (IF SNIMatched # {} THEN 1 ELSE 0)
        /\ Cardinality(TlsInspectors(once)) = 1
        /\ addXdsTLSInspectorFilter(once) = once

\* Two SNI-matched chains, one of a HTTP listener and one of a TCP listener.
C23_Witness ==
    /\ \E i, k \in SNIMatched :
           /\ xdsListener.FilterChains[i].Filters[1].Name = HTTPConnectionManagerName
           /\ xdsListener.FilterChains[k].Filters[1].Name = TCPProxyName
    /\ Cardinality(TlsInspectors(xdsListener.ListenerFilters)) = 1

\* ------------------------------------------------------------------ failed builds

\* patchHCMWithJwtAuthnFilter gets as far as building the filter: there is a
\* connection manager without the filter and the listener has a route with
\* providers.
BuildAttempted(m, l) ==
    ~m.nil /\ ~l.nil /\ listenerContainsJwtAuthn(l) /\ ~HasJwtFilter(m)

\* The build fails: no provider is left, the cluster of a provider cannot be
\* made, or the configuration is not valid.
BuildFails(l, dns, valid) ==
    LET irProviders == uniqueJwtAuthnProviders(l)
    IN  \/ irProviders = <<>>
        \/ \E i \in 1..Len(irProviders) : newJwksCluster(irProviders[i], dns).err # "nil"
        \/ ~valid

\* C24: when the build of the JWT filter fails for a provider of the listener,
\* for want of providers or at validation, buildJwtAuthn returns no
\* configuration for a failed provider, buildJwtAuthnFilter returns no filter,
\* and patchHCMWithJwtAuthnFilter returns the error and leaves the connection
\* manager as it was, whatever providers came before the one that failed.
C24_AllOrNothing ==
    [][\A dns \in Resolvers, valid \in BOOLEAN :
           (/\ BuildAttempted(mgr, irListener)
            /\ BuildFails(irListener, dns, valid)
            /\ PatchHCMWithJwtAuthnFilter(irListener, dns, valid))
           => /\ xerr' \notin {"nil", "panic"}
              /\ mgr' = mgr
              /\ buildJwtAuthnFilter(irListener, dns, valid).filter = NoHttpFilter
              /\ buildJwtAuthn(irListener, dns).err # "nil"
                     => buildJwtAuthn(irListener, dns).cfg = NoJwtAuthentication]_vars

\* The second provider of the listener has a JWKS URI with an unsupported
\* scheme, the first one was processed, and the patch returned the error.
C24_Witness ==
    /\ BuildAttempted(mgr, irListener)
    /\ Len(uniqueJwtAuthnProviders(irListener)) = 2
    /\ UrlParse(uniqueJwtAuthnProviders(irListener)[1].RemoteJWKS.URI).Scheme = "https"
    /\ UrlParse(uniqueJwtAuthnProviders(irListener)[2].RemoteJWKS.URI).Scheme = "ftp"
    /\ xerr = "unsupported JWKS URI scheme"
    /\ mgr = Mgr(<<RouterFilter>>)

\* ------------------------------------------------------------------ resolveHostname

Called == resolved # NotResolved

\* The addresses of the answer that have an IPv4 form, in that form.
IPv4Records ==
    LET sel == SelectSeq(lookup.ips, LAMBDA ip : To4(ip) # "")
    IN  [i \in 1..Len(sel) |-> To4(sel[i])]

\* The rows of the decision table: the lookup finds an IPv4 address; it fails
\* on the literal of an IPv4 address; it finds no IPv4 address; it fails on a
\* host that has no IPv4 form.
FoundIPv4 == ~lookup.err /\ IPv4Records # <<>>
FailedOnIPv4Literal == lookup.err /\ hostname \in IPv4s
FoundNoIPv4 == ~lookup.err /\ IPv4Records = <<>>
FailedOnOther == lookup.err /\ To4(ParseIP(hostname)) = ""

\* What the rows have in common: with a nil error the addresses are IPv4
\* addresses and there is one at least; the addresses of the answer in the
\* first row, the literal in the second.
ResolvedRows ==
    /\ resolved.err = "nil"
           => /\ resolved.addrs # <<>>
              /\ \A i \in 1..Len(resolved.addrs) : resolved.addrs[i] \notin IPv6s \cup IPv4Mapped
    /\ FoundIPv4 => (resolved.err = "nil" /\ resolved.addrs = IPv4Records)
    /\ FailedOnIPv4Literal => (resolved.err = "nil" /\ resolved.addrs = <<hostname>>)

\* C25 as stated: resolveHostname follows the table, and fails with "does not
\* resolve to an IPv4 address" both when the lookup finds no IPv4 address and
\* when neither the lookup nor the parse as an IPv4 address succeeds.
C25_DecisionTable ==
    Called
    => /\ ResolvedRows
       /\ (FoundNoIPv4 \/ FailedOnOther)
              => /\ resolved.err = "does not resolve to an IPv4 address"
                 /\ resolved.addrs = <<>>

\* C25, amended: resolveHostname follows the table; it fails with "does not
\* resolve to an IPv4 address" when the lookup finds no IPv4 address, and with
\* "failed to parse hostname" when neither the lookup nor the parse as an
\* IPv4 address succeeds.
C25_DecisionTableTwoErrors ==
    Called
    => /\ ResolvedRows
       /\ FoundNoIPv4
              => /\ resolved.err = "does not resolve to an IPv4 address"
                 /\ resolved.addrs = <<>>
       /\ FailedOnOther
              => /\ resolved.err = "failed to parse hostname"
                 /\ resolved.addrs = <<>>

\* The lookup failed on the literal of an IPv6 address.
C25_Witness ==
    /\ Called
    /\ lookup.err
    /\ hostname \in IPv6s
    /\ resolved.err # "nil"

\* ------------------------------------------------------------------ nil arguments

\* C26: the translation functions return an explicit error for a nil
\* argument and do not dereference it: addXdsHTTPFilterChain and
\* addXdsTCPFilterChain for a nil listener, patchHCMWithJwtAuthnFilter for a
\* nil connection manager or a nil listener, buildJwtAuthn for a nil listener.
C26_NilRejected ==
    [][/\ (AddXdsHTTPFilterChainFor(NilListener) \/ AddXdsTCPFilterChain(NilTCPListener))
           => (xerr' \notin {"nil", "panic"} /\ xdsListener' = xdsListener)
       /\ \A dns \in Resolvers, valid \in BOOLEAN :
              /\ patchHCMWithJwtAuthnFilter(NilMgr, irListener', dns, valid).err
                     \notin {"nil", "panic"}
              /\ patchHCMWithJwtAuthnFilter(Mgr(<<RouterFilter>>), NilListener, dns, valid).err
                     \notin {"nil", "panic"}
              /\ buildJwtAuthn(NilListener, dns).err \notin {"nil", "panic"}]_vars

\* ------------------------------------------------------------------ Add, again

\* C27: every call of Add returns, and the lock is not Add's once it has
\* returned.
C27_AddCompletes ==
    \A p \in Procs : (g[p].ret = "Add") ~> (g[p].ret = "Idle" /\ mu.w # p)

\* ------------------------------------------------------------------ the provider list

\* The providers the routes that specify request authentication declare, in
\* the order of the routes.
RECURSIVE Declared(_)
Declared(routes) ==
    IF routes = <<>> THEN <<>>
    ELSE (IF Head(routes).kind = "jwt" THEN Head(routes).Providers ELSE <<>>)
         \o Declared(Tail(routes))

\* Where a provider equal to p up to the name is first declared.
FirstSeen(l, p) ==
    CHOOSE i \in 1..Len(Declared(l.Routes)) :
        /\ Content(Declared(l.Routes)[i].Issuer, Declared(l.Routes)[i].Audiences,
                   Declared(l.Routes)[i].RemoteJWKS.URI) = ContentOf(p)
        /\ \A k \in 1..(i - 1) :
               Content(Declared(l.Routes)[k].Issuer, Declared(l.Routes)[k].Audiences,
                       Declared(l.Routes)[k].RemoteJWKS.URI) # ContentOf(p)

\* C28: the list uniqueJwtAuthnProviders returns holds, for every provider a
\* route of the listener declares, a provider equal to it up to the name, in
\* the order in which they are first declared, wherever the routes without
\* request authentication are; it is not empty when listenerContainsJwtAuthn
\* is true.
C28_EveryProviderListed ==
    ~irListener.nil
    => LET providers == uniqueJwtAuthnProviders(irListener)
           declared == Declared(irListener.Routes)
       IN  /\ \A i \in 1..Len(declared) :
                  \E k \in 1..Len(providers) :
                      ContentOf(providers[k]) = ContentOf(declared[i])
           /\ \A k, m \in 1..Len(providers) :
                  k < m => FirstSeen(irListener, providers[k])
                               < FirstSeen(irListener, providers[m])
           /\ listenerContainsJwtAuthn(irListener) => providers # <<>>

\* ------------------------------------------------------------------ nil callbacks

\* C29: DeleteExpired never calls a nil callback, whenever OnEvicted is called
\* between its scan and its callbacks, and an entry removed while no callback
\* is registered is not kept for the callbacks.
C29_NoNilCallback ==
    /\ [](\A p \in Procs : g[p].pc # "panic")
    /\ [][\A p \in Procs :
              (g[p].pc = "DEScan" /\ g'[p] # g[p] /\ onEvicted = "nil")
                  => g'[p].evictedItems = g[p].evictedItems]_vars

\* ------------------------------------------------------------------ the permit

\* The positions of a caller of GetKey after a miss (client.go:69-70).
MissPath == {"Refresh", "Fetching", "ClientStore", "CacheStore", "CacheStoreLock"}

\* C30: at most one started goroutine exists; the permit is held exactly while
\* it does; a goroutine is started only by a TryAcquire that succeeds; the
\* permit is released only by the goroutine that holds it, when it ends; the
\* callers of GetKey that missed neither acquire nor release it.
C30_OneBackgroundRefresh ==
    /\ [](Cardinality(Started) <= 1 /\ sem = Cardinality(Started))
    /\ [][/\ Started' \ Started # {}
               => /\ sem = 0 /\ sem' = 1
                  /\ \E p \in Procs : j[p].pc = "GKCheck" /\ j'[p].spawned
          /\ sem' < sem
               => \E b \in Started : /\ j[b].pc = "Release"
                                     /\ j'[b].pc = "Free"
                                     /\ Started' = Started \ {b}
          /\ \A p \in Procs :
                 (j[p].pc \in MissPath \cup {"GKLookup"} /\ j'[p] # j[p])
                     => (sem' = sem /\ Started' = Started)]_vars

\* A caller that missed is inside Source.GetJWKS while a started goroutine
\* holds the permit.
C30_Witness ==
    \E p \in Procs, b \in Bgs :
        /\ j[p].pc = "Fetching" /\ ~j[p].found
        /\ j[b].pc \in {"Refresh", "Fetching"}
        /\ sem = 1

\* ------------------------------------------------------------------ hard expiry

\* The entry of key k is past its hard expiry, swept or not.
PastExpiry(k) == k \notin DOMAIN items \/ now > items[k].Expiration

\* C31: an entry hard-expires pubKeyExpiration after the store that wrote it,
\* and a GetKey that looks the key up later than that does not get the cached
\* key, whether the sweep has removed the entry or not: it takes the refresh
\* in its own goroutine, starts nothing, and returns the key it fetched or the
\* error.
C31_NeverServedPastExpiry ==
    [][\A i \in JG :
          /\ StepFrom(i, "CacheStore") => j'[i].exp = now + pubKeyExpiration
          /\ StepFrom(i, "CacheStoreLock") => items'[j[i].key].Expiration = j[i].exp
          /\ \A k \in DOMAIN items \cap DOMAIN items' :
                 items'[k] # items[k] => \E w \in JG : StepFrom(w, "CacheStoreLock")
          /\ (i \in Procs /\ StepFrom(i, "GKLookup") /\ PastExpiry(j[i].key))
                 => /\ j'[i].pc = "Refresh"
                    /\ ~j'[i].found
                    /\ j'[i].cached = NoEntry
                    /\ j'[i].jwk = "nil"
                    /\ sem' = sem
                    /\ \A b \in Bgs : j'[b] = j[b]
          /\ (i \in Procs /\ StepFrom(i, "Fetching") /\ ~j[i].found)
                 => \/ j'[i].pc = "GKDone" /\ j'[i].err # "nil" /\ j'[i].jwk = "nil"
                    \/ j'[i].pc = "ClientStore" /\ j'[i].err = "nil"]_vars

\* A GetKey has missed an entry that is past its expiry and still in the map.
C31_Witness ==
    \E p \in Procs :
        /\ j[p].pc = "Refresh" /\ ~j[p].found
        /\ j[p].key \in DOMAIN items
        /\ now > items[j[p].key].Expiration

\* ------------------------------------------------------------------ what a refresh stores

\* A refresh writes the entry of its key and leaves every other entry as it
\* is; the entry has the key fetched, the soft-refresh deadline client.store
\* computed, and expires pubKeyExpiration after the store.
StoresOneEntry ==
    \A i \in JG :
        /\ StepFrom(i, "CacheStore") => j'[i].exp = now + pubKeyExpiration
        /\ StepFrom(i, "CacheStoreLock")
               => /\ DOMAIN items' = DOMAIN items \cup {j[i].key}
                  /\ items'[j[i].key] =
                         Item([jwk |-> j[i].jwk, refresh |-> j[i].refresh], j[i].exp)
                  /\ j[i].jwk \in Fetched
                  /\ \A k \in DOMAIN items \ {j[i].key} : items'[k] = items[k]

\* C32 as stated: a successful refresh at time t replaces the entry of its
\* key only, and the soft-refresh deadline it stores is t + refresh.
C32_StoresExactDeadline ==
    [][/\ StoresOneEntry
       /\ \A i \in JG :
              StepFrom(i, "ClientStore") => UnixTime(j'[i].refresh) = now + refresh]_vars

\* C32, amended: the soft-refresh deadline stored is t + refresh cut down to
\* whole seconds: not after t + refresh, and less than a second before it.
C32_StoresTruncatedDeadline ==
    [][/\ StoresOneEntry
       /\ \A i \in JG :
              StepFrom(i, "ClientStore")
                  => /\ UnixTime(j'[i].refresh) <= now + refresh
                     /\ now + refresh < UnixTime(j'[i].refresh) + TicksPerSecond]_vars

\* Both keys are cached, stored at different instants, and a refresh of one
\* of them has just returned its key.
C32_Witness ==
    /\ DOMAIN items = Keys
    /\ items["k1"].Expiration # items["k2"].Expiration
    /\ \E p \in Procs :
           /\ j[p].pc = "GKDone" /\ ~j[p].found /\ j[p].err = "nil"
           /\ items[j[p].key].Object.jwk = j[p].jwk

\* ------------------------------------------------------------------ Get reads only

\* A goroutine inside a Get that was called directly.
InGet(p) == g[p].pc \in {"GetRLock", "GetRUnlock"} /\ g[p].ret = "Idle"

\* C33: no step of Get changes the map, the registered callback or the
\* callbacks owed, whether its key is present, absent or expired.
C33_GetReadsOnly ==
    [][\A p \in Procs :
          (InGet(p) /\ g'[p] # g[p])
              => /\ items' = items
                 /\ onEvicted' = onEvicted
                 /\ pending' = pending
                 /\ g'[p].evictedItems = g[p].evictedItems
                 /\ g'[p].pc \in {"GetRUnlock", "Idle"}]_vars

\* A Get has found its key expired and still in the map, with a callback
\* registered.
C33_Witness ==
    \E p \in Procs :
        /\ g[p].pc = "GetRUnlock" /\ g[p].ret = "Idle" /\ ~g[p].found
        /\ g[p].key \in DOMAIN items
        /\ now > items[g[p].key].Expiration /\ items[g[p].key].Expiration > 0
        /\ onEvicted # "nil"

\* ------------------------------------------------------------------ the sweep loop

\* The entry of k is in the map and has expired.
IsExpired(k) == k \in DOMAIN items /\ Expired(items[k], now)

\* Without a manager an expired entry leaves the map, or changes, only in a
\* step of DeleteExpired or of a Store of its key; and there is one loop at
\* most, which runs in its own goroutine only.
StaysUntilSweptOrStored ==
    /\ \A k \in Keys :
           (manager = "nil" /\ IsExpired(k)
                /\ (k \notin DOMAIN items' \/ items'[k] # items[k]))
               => \E p \in Procs :
                      \/ g[p].pc = "DEScan" /\ g'[p] # g[p] /\ k \notin DOMAIN items'
                      \/ g[p].pc = "StoreLock" /\ g'[p] # g[p] /\ g[p].key = k
    /\ manager = "nil" => manager' = "nil"
    /\ manager # "running" => g'[ManagerG] = g[ManagerG]

\* C34: while the loop started by New is not stopped, every expired entry is
\* eventually out of the map (or stored afresh); and without a loop an
\* expired entry stays until DeleteExpired is called or its key is stored.
C34_ExpiredEventuallyRemoved ==
    /\ \A k \in Keys :
           [](manager = "running" /\ IsExpired(k)
                  => <>(manager = "stopped" \/ ~IsExpired(k)))
    /\ [][StaysUntilSweptOrStored]_vars

\* ------------------------------------------------------------------ the filters of a built chain

\* The names of the HTTP filters of the connection manager in a filter chain.
FilterNames(chain) ==
    LET m == chain.Filters[1].TypedConfig
    IN  [i \in 1..Len(m.HttpFilters) |-> m.HttpFilters[i].Name]

\* C35: the connection manager addXdsHTTPFilterChain has placed in the chain
\* has the router alone when no route of the listener has request
\* authentication, and the JWT authentication filter followed by the router
\* when some route has.
C35_ChainFilters ==
    ~xdsListener.DefaultFilterChain.nil
        => FilterNames(xdsListener.DefaultFilterChain) =
               IF listenerContainsJwtAuthn(irListener)
               THEN <<jwtAuthenFilter, RouterName>>
               ELSE <<RouterName>>

\* ------------------------------------------------------------------ provider names

\* The provider requirements of the rule of a filter configuration.
RequirementsOf(cfg) ==
    IF cfg.Requires.t = "provider_name" THEN <<cfg.Requires>> ELSE cfg.Requires.reqs

\* C36: the providers map of a filter configuration buildJwtAuthn has built
\* has one entry for each provider of the deduplicated list, each with the
\* content of its provider, and the requirements name pairwise distinct
\* entries of the map.
C36_OneEntryPerProvider ==
    HasJwtFilter(mgr)
    => LET cfg == JwtConfigOf(mgr)
           irProviders == uniqueJwtAuthnProviders(irListener)
           reqs == RequirementsOf(cfg)
       IN  /\ Cardinality(DOMAIN cfg.Providers) = Len(irProviders)
           /\ \A k \in 1..Len(irProviders) :
                  /\ irProviders[k].Name \in DOMAIN cfg.Providers
                  /\ cfg.Providers[irProviders[k].Name].Issuer = irProviders[k].Issuer
           /\ \A a, b \in 1..Len(reqs) : a # b => reqs[a].name # reqs[b].name
           /\ \A a \in 1..Len(reqs) : reqs[a].name \in DOMAIN cfg.Providers

\* ------------------------------------------------------------------ patching again

\* The number of JWT authentication filters of a connection manager.
JwtCount(m) ==
    Cardinality({i \in 1..Len(m.HttpFilters) : m.HttpFilters[i].Name = jwtAuthenFilter})

\* C37: however often patchHCMWithJwtAuthnFilter is applied to a connection
\* manager and its listener, the manager has one JWT authentication filter
\* at most; and when no route of the listener has JWT providers, or the
\* filter is there already, the call returns nil and leaves HttpFilters as
\* they are.
C37_PatchIdempotent ==
    /\ [](JwtCount(mgr) <= 1)
    /\ [][\A dns \in Resolvers, valid \in BOOLEAN :
             (~mgr.nil /\ PatchHCMWithJwtAuthnFilter(irListener, dns, valid)
                  /\ (~listenerContainsJwtAuthn(irListener) \/ HasJwtFilter(mgr)))
                 => (xerr' = "nil" /\ mgr' = mgr)]_vars

\* The manager of a listener with JWT providers has been patched, and can
\* be patched again.
C37_Witness ==
    /\ listenerContainsJwtAuthn(irListener)
    /\ JwtCount(mgr) = 1 /\ Len(mgr.HttpFilters) = 2 /\ xerr = "nil"
    /\ ENABLED (\E dns \in Resolvers : PatchHCMWithJwtAuthnFilter(irListener, dns, FALSE))

\* ------------------------------------------------------------------ the Services of the infra manager

\* C38: a step of deleteServices deletes Services that
\* createOrUpdateServices created only, and when deleteServices returns nil
\* every such Service that was there when it started has been deleted.
C38_DeletesOwnServicesOnly ==
    [][(ipc = "Deleting" /\ <<svcList, ipc>>' # <<svcList, ipc>>)
           => /\ \A n \in DOMAIN services \ DOMAIN services' :
                      services[n].creator = "infra"
              /\ (ipc' = "Idle" /\ ierr' = "nil")
                     => \A n \in DOMAIN atStart :
                            atStart[n].creator = "infra" => n \notin DOMAIN services']_vars

\* C39: after createOrUpdateServices has returned nil, every expected
\* Service is in the API server with the expected Spec and has been passed
\* to updateResource, on a first call and on a later call with another IR.
C39_ConvergesToExpected ==
    [][\A infra \in Infras :
           (CreateOrUpdateServices(infra) /\ ierr' = "nil")
               => LET svcs == expectedServices(infra).svcs
                  IN  \A i \in 1..Len(svcs) :
                          /\ svcs[i].Name \in DOMAIN services'
                          /\ services'[svcs[i].Name].Spec = svcs[i].Spec
                          /\ svcs[i].Name \in recorded']_vars

====
